---- MODULE Spec2Model ----
(***************************************************************************)
(* A model of the retrieval-augmented generation core of ChatMe-LLM:      *)
(* the chunker, the in-memory RAGSystem (src/rag.py), the Qdrant-backed    *)
(* RAGSystem (src/rag_qdrant.py), and the server process that uses them    *)
(* (src/main.py): the Me instance, the /upload endpoint and the chat loop. *)
(*                                                                         *)
(* Strings are sequences of one-character strings.  A vector is a pair of  *)
(* integer components; the embedding model's output dimensionality is kept *)
(* beside it as a number.                                                  *)
(***************************************************************************)
EXTENDS Integers, Sequences, FiniteSets, TLC

VARIABLES
    variant,          \* which RAGSystem class the instance is: "memory" | "qdrant";
                      \* "none" while me.rag is None
    embedding_model,  \* self.embedding_model
    chunk_size,       \* self.chunk_size
    chunk_overlap,    \* self.chunk_overlap
    embeddings,       \* rag.py self.embeddings
    documents,        \* rag.py self.documents
    qdrant,           \* the Qdrant server: collection name -> collection
    clock,            \* number of uuid4()/time.time() draws made so far; where the
                      \* two are drawn in steps of their own, one number for each
    calls,            \* collaborator calls made by the handler that ran last
    ret,              \* what the handler that ran last was given and produced
    text,             \* the text handed to _chunk_text (chunker specification)
    pc,               \* per process or thread: where it is inside its handler
    seen,             \* per client process: collection names get_collections returned
    knowledge,        \* the files of the directory me/knowledge: name -> content
    locals,           \* the local variables of the calls in progress
    messages,         \* the `messages` list of the Me.chat call in progress
    me                \* the Me instance of the running server process

vars == <<variant, embedding_model, chunk_size, chunk_overlap, embeddings,
          documents, qdrant, clock, calls, ret, text, pc, seen, knowledge, locals,
          messages, me>>

----------------------------------------------------------------------------
(* Bounds of the model *)

\* longest text handed to the chunker, in characters
MaxLen == 5
\* largest chunk_size the chunker is run with
MaxChunkSize == 3

Min(a, b) == IF a < b THEN a ELSE b
Max(a, b) == IF a > b THEN a ELSE b

----------------------------------------------------------------------------
(* Python string and list primitives used by the code *)

\* characters of the input alphabet
Chars == {"a", "b", ".", " "}

\* \s of the regular expressions (str patterns), and the whitespace of
\* str.split / str.strip: the characters for which str.isspace holds.  Listed
\* are space, tab, line feed, carriage return, form feed, then (written as the
\* characters themselves) vertical tab U+000B, the separators U+001C to U+001F,
\* next line U+0085, no-break space U+00A0 and the Ogham space mark U+1680.
\* The spaces U+2000 to U+200A, U+2028, U+2029, U+202F, U+205F and U+3000
\* cannot be written in a string of this language: a text holds each of them
\* under the name of its code point.
IsSpace(c) ==
    c \in {" ", "\t", "\n", "\r", "\f",
           "", "", "", "", "", 
           "", " ", " ",
           "U+2000", "U+2001", "U+2002", "U+2003", "U+2004", "U+2005",
           "U+2006", "U+2007", "U+2008", "U+2009", "U+200A", "U+2028",
           "U+2029", "U+202F", "U+205F", "U+3000"}

\* the character class [.!?] of the sentence split
IsTerminator(c) == c \in {".", "!", "?"}

\* Python seq[start:]
PySliceFrom(s, start) ==
    LET n  == Len(s)
        lo == IF start < 0 THEN Max(n + start, 0) ELSE Min(start, n)
    IN  SubSeq(s, lo + 1, n)

\* str.lstrip()
RECURSIVE LStrip(_)
LStrip(s) ==
    IF s # <<>> /\ IsSpace(Head(s)) THEN LStrip(Tail(s)) ELSE s

\* str.rstrip()
RECURSIVE RStrip(_)
RStrip(s) ==
    IF s # <<>> /\ IsSpace(s[Len(s)]) THEN RStrip(SubSeq(s, 1, Len(s) - 1)) ELSE s

\* str.strip()
Strip(s) == RStrip(LStrip(s))

\* re.sub(r'\s+', ' ', s): every run of whitespace becomes one space
RECURSIVE CollapseSpaces(_)
CollapseSpaces(s) ==
    IF s = <<>> THEN <<>>
    ELSE IF IsSpace(Head(s))
         THEN <<" ">> \o CollapseSpaces(LStrip(s))
         ELSE <<Head(s)>> \o CollapseSpaces(Tail(s))

\* rag.py line 44: re.sub(r'\s+', ' ', text).strip()
Normalize(s) == Strip(CollapseSpaces(s))

\* str.split(): the maximal runs of non-whitespace characters
RECURSIVE SplitWords(_, _)
SplitWords(s, word) ==
    IF s = <<>> THEN (IF word = <<>> THEN <<>> ELSE <<word>>)
    ELSE IF IsSpace(Head(s))
         THEN (IF word = <<>> THEN <<>> ELSE <<word>>) \o SplitWords(Tail(s), <<>>)
         ELSE SplitWords(Tail(s), Append(word, Head(s)))

Words(s) == SplitWords(s, <<>>)

\* sep.join(parts)
RECURSIVE Join(_, _)
Join(parts, sep) ==
    IF parts = <<>> THEN <<>>
    ELSE IF Len(parts) = 1 THEN parts[1]
    ELSE parts[1] \o sep \o Join(Tail(parts), sep)

\* re.split(r'(?<=[.!?])\s+', s): cut at every whitespace run that follows a
\* terminator; the run itself is dropped.  `done` is the part of the current
\* piece already scanned.
RECURSIVE SplitScan(_, _)
SplitScan(s, done) ==
    IF s = <<>> THEN <<done>>
    ELSE IF IsSpace(Head(s)) /\ done # <<>> /\ IsTerminator(done[Len(done)])
         THEN <<done>> \o SplitScan(LStrip(s), <<>>)
         ELSE SplitScan(Tail(s), Append(done, Head(s)))

SplitSentences(s) == SplitScan(s, <<>>)

----------------------------------------------------------------------------
(* The chunker: RAGSystem._chunk_text *)

\* rag.py lines 57-59: the buffer the next chunk starts from
OverlapSeed(current_chunk, overlap) ==
    LET words == Words(current_chunk)
        overlap_word_count == Min(Len(words), overlap \div 4)
    IN  Join(PySliceFrom(words, -overlap_word_count), <<" ">>) \o <<" ">>

\* rag.py lines 52-61: the loop over the sentences, from sentence i on.
\* Besides the chunks and the buffer it hands back `closes`: for every chunk the
\* loop closed, the index of the sentence that was being added at that moment.
RECURSIVE ChunkLoop(_, _, _, _, _, _, _)
ChunkLoop(sentences, i, chunks, current_chunk, closes, size, overlap) ==
    IF i > Len(sentences)
    THEN [chunks |-> chunks, current_chunk |-> current_chunk, closes |-> closes]
    ELSE LET sentence == sentences[i]
             close == Len(current_chunk) + Len(sentence) > size
                      /\ current_chunk # <<>>
             chunks1 == IF close THEN Append(chunks, Strip(current_chunk))
                        ELSE chunks
             current1 == IF close THEN OverlapSeed(current_chunk, overlap)
                         ELSE current_chunk
             closes1 == IF close THEN Append(closes, i) ELSE closes
         IN  ChunkLoop(sentences, i + 1, chunks1,
                       current1 \o sentence \o <<" ">>, closes1, size, overlap)

\* ChunkRun that treats chunk_size as a hard cap on a sentence: what of a
\* sentence lies beyond chunk_size characters is cut off before the loop
ChunkRun_hard_cap(t, size, overlap) ==
    LET sentences == SplitSentences(Normalize(t))
    IN  ChunkLoop([i \in 1 .. Len(sentences) |-> SubSeq(sentences[i], 1, Min(size, Len(sentences[i])))],
                  1, <<>>, <<>>, <<>>, size, overlap)

\* rag.py lines 44-61: normalise, split, run the loop
ChunkRun(t, size, overlap) ==
    ChunkLoop(SplitSentences(Normalize(t)), 1, <<>>, <<>>, <<>>, size, overlap)

\* chunk_text without the test of line 64: the last buffer is always emitted
chunk_text_unchecked_tail(t, size, overlap) ==
    LET done == ChunkRun(t, size, overlap)
    IN  Append(done.chunks, Strip(done.current_chunk))

\* rag.py lines 41-67 (rag_qdrant.py lines 79-105 are the same text)
chunk_text(t, size, overlap) ==
    LET done == ChunkRun(t, size, overlap)
    IN  IF Strip(done.current_chunk) # <<>>
        THEN Append(done.chunks, Strip(done.current_chunk))
        ELSE done.chunks

----------------------------------------------------------------------------
(* Specification of the chunker alone: every text up to MaxLen characters  *)
(* under every small configuration.                                        *)

RECURSIVE SeqsUpTo(_, _)
SeqsUpTo(S, n) ==
    IF n = 0 THEN {<<>>}
    ELSE LET shorter == SeqsUpTo(S, n - 1)
         IN  shorter \cup {Append(s, c) : s \in {x \in shorter : Len(x) = n - 1}, c \in S}

ChunkTexts == SeqsUpTo(Chars, MaxLen)
ChunkSizes == 1 .. MaxChunkSize
ChunkOverlaps == {0, 3, 4, 8, 100}

NoRet == [op |-> "none"]

InitChunk ==
    /\ variant = "memory"
    /\ embedding_model = "text-embedding-3-small"
    /\ chunk_size \in ChunkSizes
    /\ chunk_overlap \in ChunkOverlaps
    /\ embeddings = <<>>
    /\ documents = <<>>
    /\ qdrant = <<>>
    /\ clock = 0
    /\ calls = <<>>
    /\ ret = NoRet
    /\ text \in ChunkTexts
    /\ pc = <<>>
    /\ seen = <<>>
    /\ knowledge = <<>>
    /\ locals = <<>>
    /\ messages = <<>>
    /\ me = <<>>

CallChunkText ==
    /\ ret.op = "none"
    /\ ret' = [op |-> "_chunk_text",
               value |-> chunk_text(text, chunk_size, chunk_overlap),
               closes |-> ChunkRun(text, chunk_size, chunk_overlap).closes]
    /\ UNCHANGED <<variant, embedding_model, chunk_size, chunk_overlap, embeddings,
                   documents, qdrant, clock, calls, text, pc, seen,
                   knowledge, locals, messages, me>>

NextChunk == CallChunkText

SpecChunk == InitChunk /\ [][NextChunk]_vars

----------------------------------------------------------------------------
(* Vectors, the embedding call and cosine similarity *)

\* most chunks one behaviour adds to a store (which bounds the store's size and
\* the number of uuid4()/time.time() draws)
MaxDocs == 2
\* search is called with top_k in -MaxTopK .. MaxTopK
MaxTopK == 2

\* rag_qdrant.py line 41
VectorSize == 1536

Models == {"text-embedding-3-small", "text-embedding-3-large"}

\* length of the vector the embedding model returns (rag_qdrant.py lines 39-40
\* for the small model; the large model of the same family returns 3072)
EmbeddingDim(model) == IF model = "text-embedding-3-small" THEN 1536 ELSE 3072

\* The first two components of the vectors the embedding call may return; every
\* further component is 0.  All have Euclidean length 5.
EmbedDirs == {<<5, 0>>, <<-3, 4>>}

NoVec == [dim |-> 0, xy |-> <<0, 0>>]

\* rag.py lines 33-39: the outcomes of one _get_embedding call: the API call
\* raises, or it returns a vector of the model's dimensionality
EmbedOutcomes(model) ==
    {[ok |-> FALSE, vec |-> NoVec]}
    \cup {[ok |-> TRUE, vec |-> [dim |-> EmbeddingDim(model), xy |-> d]] : d \in EmbedDirs}

\* np.dot
Dot(a, b) == a[1] * b[1] + a[2] * b[2]

\* np.linalg.norm (the vectors of the model have whole-number lengths)
Norm(a) == CHOOSE r \in 0 .. Dot(a, a) : r * r = Dot(a, a)

\* rag.py lines 144-146, in hundredths: 100 stands for 1.0
similarity(q, d) == (Dot(q.xy, d.xy) * 100) \div (Norm(q.xy) * Norm(d.xy))

Reverse(s) == [i \in 1 .. Len(s) |-> s[Len(s) + 1 - i]]

\* the orders of 1 .. n, for every n a store of the model can have
PermsTable ==
    [n \in 0 .. MaxDocs |->
        {p \in [1 .. n -> 1 .. n] : \A i, j \in 1 .. n : i # j => p[i] # p[j]}]

Perms(n) == PermsTable[n]

\* np.argsort(scores): the index orders that put the scores in ascending order
\* (0-based in the code, 1-based here); the default sort kind is not stable, so
\* equal scores may come in either order
ArgSorts(scores) ==
    {p \in Perms(Len(scores)) :
        \A i \in 1 .. Len(scores) - 1 : scores[p[i]] <= scores[p[i + 1]]}

----------------------------------------------------------------------------
(* Python dicts: functions from keys to values *)

EmptyDict == <<>>

\* d[k] = v on a copy of d
DictSet(d, k, v) == [x \in (DOMAIN d) \cup {k} |-> IF x = k THEN v ELSE d[x]]

\* the metadata arguments add_text is called with; `none` stands for metadata=None
MetaArgs ==
    { [none |-> TRUE,  dict |-> [source |-> "unused"]],
      [none |-> FALSE, dict |-> [source |-> "upload", chunk_id |-> 7,
                                 content |-> <<"z">>, created_at |-> 0,
                                 tag |-> "x"]] }

\* rag.py lines 104-105
DefaultMetadata(arg) == IF arg.none THEN [source |-> "direct_text"] ELSE arg.dict

----------------------------------------------------------------------------
(* The in-memory RAGSystem of rag.py *)

\* the texts add_text is called with: no chunk, one sentence, two sentences
RagTexts == {<<>>, <<"a", ".">>, <<"a", ".", " ", "b", ".">>}

\* (chunk_size, chunk_overlap) of the instance: a small chunk_size, under which
\* the two-sentence text gives two chunks
RagChunking == {<<2, 4>>}

\* ChunkMetadata that starts from an empty dict instead of a copy of metadata
ChunkMetadata_without_copy(metadata, i, chunk) ==
    DictSet(DictSet(EmptyDict, "chunk_id", i), "content", chunk)

\* rag.py lines 116-118: the record stored for chunk number i (0-based)
ChunkMetadata(metadata, i, chunk) ==
    DictSet(DictSet(metadata, "chunk_id", i), "content", chunk)

\* the loop of add_text with the record stored before the embedding call is made
RECURSIVE AddLoopMemory_record_first(_, _, _, _, _, _)
AddLoopMemory_record_first(chunks, i, metadata, outcomes, embs, docs) ==
    IF i > Len(chunks)
    THEN [raised |-> FALSE, embeddings |-> embs, documents |-> docs,
          embedded |-> i - 1, metadata |-> metadata]
    ELSE IF ~outcomes[i].ok
    THEN [raised |-> TRUE, embeddings |-> embs,
          documents |-> Append(docs, DictSet(DictSet(metadata, "chunk_id", i - 1),
                                             "content", chunks[i])),
          embedded |-> i, metadata |-> metadata]
    ELSE AddLoopMemory_record_first(chunks, i + 1, metadata, outcomes,
                       Append(embs, outcomes[i].vec),
                       Append(docs, DictSet(DictSet(metadata, "chunk_id", i - 1),
                                            "content", chunks[i])))

\* rag.py lines 111-122: the loop of add_text from chunk i (1-based) on, given
\* the outcome of each embedding call; it stops at the first call that raises.
\* `metadata` is the dict the loop was handed, as the loop leaves it: lines
\* 117-118 write into the copy of line 116.
RECURSIVE AddLoopMemory(_, _, _, _, _, _)
AddLoopMemory(chunks, i, metadata, outcomes, embs, docs) ==
    IF i > Len(chunks)
    THEN [raised |-> FALSE, embeddings |-> embs, documents |-> docs,
          embedded |-> i - 1, metadata |-> metadata]
    ELSE IF ~outcomes[i].ok
    THEN [raised |-> TRUE, embeddings |-> embs, documents |-> docs,
          embedded |-> i, metadata |-> metadata]
    ELSE AddLoopMemory(chunks, i + 1, metadata, outcomes,
                       Append(embs, outcomes[i].vec),
                       Append(docs, ChunkMetadata(metadata, i - 1, chunks[i])))

EmbedCalls(n) == [i \in 1 .. n |-> "embeddings.create"]

\* rag.py line 113: what the first n embedding calls of an add_text were given
\* and what they returned
Obtained(chunks, outcomes, n) ==
    [i \in 1 .. n |-> [input |-> chunks[i], embedding |-> outcomes[i].vec]]

\* rag.py lines 93-124
add_text_memory ==
    /\ variant = "memory"
    /\ \E t \in RagTexts, arg \in MetaArgs :
        LET chunks == chunk_text(t, chunk_size, chunk_overlap)
        IN  /\ Len(documents) + Len(chunks) <= MaxDocs
            /\ \E outcomes \in [1 .. Len(chunks) -> EmbedOutcomes(embedding_model)] :
                LET r == AddLoopMemory(chunks, 1, DefaultMetadata(arg), outcomes,
                                       embeddings, documents)
                IN  /\ embeddings' = r.embeddings
                    /\ documents' = r.documents
                    /\ calls' = EmbedCalls(r.embedded)
                    /\ ret' = [op |-> "add_text", raised |-> r.raised,
                               value |-> IF r.raised THEN 0 ELSE Len(chunks),
                               text |-> t, metadata |-> arg,
                               metadata_after |-> r.metadata,
                               obtained |-> Obtained(chunks, outcomes,
                                   IF r.raised THEN r.embedded - 1 ELSE r.embedded),
                               before |-> Len(documents)]
    /\ UNCHANGED <<variant, embedding_model, chunk_size, chunk_overlap, qdrant,
                   clock, text, pc, seen,
                   knowledge, locals, messages, me>>

\* rag.py lines 141-147: one score per stored vector; np.dot raises on vectors of
\* different lengths
ScoresRaise(q, embs) == \E i \in 1 .. Len(embs) : embs[i].dim # q.dim

Scores(q, embs) == [i \in 1 .. Len(embs) |-> similarity(q, embs[i])]

\* SearchResults without the [::-1] of line 154
SearchResults_ascending(docs, scores, order, top_k) ==
    LET top_indices == PySliceFrom(order, -top_k)
    IN  [i \in 1 .. Len(top_indices) |->
            DictSet(docs[top_indices[i]], "score", scores[top_indices[i]])]

\* rag.py lines 154-163: the top_k indices of the argsort order, best first,
\* and the records they select, each copied and given its score
SearchResults(docs, scores, order, top_k) ==
    LET top_indices == Reverse(PySliceFrom(order, -top_k))
    IN  [i \in 1 .. Len(top_indices) |->
            DictSet(docs[top_indices[i]], "score", scores[top_indices[i]])]

\* the stored records after a search loop that wrote the score into the stored
\* record itself instead of a copy
RecordsAfterSearch_without_copy(docs, scores, order, top_k) ==
    LET top_indices == Reverse(PySliceFrom(order, -top_k))
    IN  [i \in 1 .. Len(docs) |->
            IF \E j \in 1 .. Len(top_indices) : top_indices[j] = i
            THEN DictSet(docs[i], "score", scores[i])
            ELSE docs[i]]

\* rag.py lines 157-161: self.documents after the loop; line 159 copies the
\* record and line 160 writes into the copy, so the stored records stay
RecordsAfterSearch(docs, scores, order, top_k) == docs

\* rag.py lines 126-163: self.documents after a call of search
DocumentsAfterSearch(embs, docs, q, top_k, order) ==
    IF ~q.ok \/ ScoresRaise(q.vec, embs) \/ Min(top_k, Len(docs)) = 0 THEN docs
    ELSE RecordsAfterSearch(docs, Scores(q.vec, embs), order, Min(top_k, Len(docs)))

\* rag.py lines 126-163, given the outcome of the query's embedding call and the
\* order np.argsort returns
search_memory(embs, docs, q, top_k, order) ==
    IF ~q.ok \/ ScoresRaise(q.vec, embs) THEN [raised |-> TRUE, value |-> <<>>]
    ELSE LET scores == Scores(q.vec, embs)
             k == Min(top_k, Len(docs))
         IN  IF k = 0 THEN [raised |-> FALSE, value |-> <<>>]
             ELSE IF \E i \in 1 .. Len(PySliceFrom(order, -k)) :
                        PySliceFrom(order, -k)[i] > Len(docs)
             THEN [raised |-> TRUE, value |-> <<>>]
             ELSE [raised |-> FALSE, value |-> SearchResults(docs, scores, order, k)]

TopKs == (0 - MaxTopK) .. MaxTopK

\* the orders np.argsort may return for the scores of query vector q
QueryOrders(q, embs) ==
    IF ~q.ok \/ ScoresRaise(q.vec, embs) THEN {<<>>}
    ELSE ArgSorts(Scores(q.vec, embs))

\* a call of search on the in-memory instance
call_search_memory ==
    /\ variant = "memory"
    /\ \E q \in EmbedOutcomes(embedding_model), top_k \in TopKs :
        \E order \in QueryOrders(q, embeddings) :
            LET r == search_memory(embeddings, documents, q, top_k, order)
            IN  /\ calls' = <<"embeddings.create">>
                /\ documents' = DocumentsAfterSearch(embeddings, documents, q,
                                                     top_k, order)
                /\ ret' = [op |-> "search", raised |-> r.raised, value |-> r.value,
                           top_k |-> top_k, embedded |-> q.ok,
                           query_embedding |-> q.vec]
    /\ UNCHANGED <<variant, embedding_model, chunk_size, chunk_overlap, embeddings,
                   qdrant, clock, text, pc, seen,
                   knowledge, locals, messages, me>>

----------------------------------------------------------------------------
(* The Qdrant server, as the client calls of rag_qdrant.py use it *)

\* rag_qdrant.py line 21
CollectionNames == {"knowledge_base"}

NoCollection == [exists |-> FALSE, size |-> 0, distance |-> "none", points |-> <<>>]

\* rag_qdrant.py lines 61-62: the names get_collections() lists
get_collections(srv) == {n \in DOMAIN srv : srv[n].exists}

\* rag_qdrant.py lines 65-68: the server refuses to create a collection that exists
create_collection(srv, name, size, distance) ==
    IF srv[name].exists THEN [raised |-> TRUE, srv |-> srv]
    ELSE [raised |-> FALSE,
          srv |-> [srv EXCEPT ![name] = [exists |-> TRUE, size |-> size,
                                         distance |-> distance, points |-> <<>>]]]

\* rag_qdrant.py line 258: deleting drops the collection and all its points
delete_collection(srv, name) == [srv EXCEPT ![name] = NoCollection]

\* the points of `old` that no point of `new` replaces, followed by `new`
MergePoints(old, new) ==
    SelectSeq(old, LAMBDA p : \A i \in 1 .. Len(new) : new[i].id # p.id) \o new

\* rag_qdrant.py lines 176-179: one request; it is refused as a whole when the
\* collection is missing or a vector has not the collection's size
upsert(srv, name, points) ==
    IF \/ ~srv[name].exists
       \/ \E i \in 1 .. Len(points) : points[i].vector.dim # srv[name].size
    THEN [raised |-> TRUE, srv |-> srv]
    ELSE [raised |-> FALSE,
          srv |-> [srv EXCEPT ![name].points = MergePoints(@, points)]]

\* rag_qdrant.py lines 253-254
points_count(srv, name) ==
    IF srv[name].exists THEN [raised |-> FALSE, value |-> Len(srv[name].points)]
    ELSE [raised |-> TRUE, value |-> 0]

\* rag_qdrant.py lines 198-202: the request is refused when the collection is
\* missing, the query vector has not its size or the limit is below 1
SearchRefused(srv, name, qvec, limit) ==
    \/ ~srv[name].exists
    \/ qvec.dim # srv[name].size
    \/ limit < 1

PointVectors(points) == [i \in 1 .. Len(points) |-> points[i].vector]

\* rag_qdrant.py lines 198-202: the `limit` best points, best first; `order` is
\* an ascending order of the scores, the server's choice among equal scores
ScoredPoints(srv, name, qvec, limit, order) ==
    LET points == srv[name].points
        scores == Scores(qvec, PointVectors(points))
        best == SubSeq(Reverse(order), 1, Min(limit, Len(points)))
    IN  [i \in 1 .. Len(best) |->
            [payload |-> points[best[i]].payload, score |-> scores[best[i]]]]

----------------------------------------------------------------------------
(* The Qdrant-backed RAGSystem of rag_qdrant.py *)

\* rag_qdrant.py lines 157-160: the payload of chunk i (0-based) made at time now
ChunkPayload(metadata, i, chunk, now) ==
    DictSet(ChunkMetadata(metadata, i, chunk), "created_at", now)

\* rag_qdrant.py lines 152-172: the loop of add_text from chunk i (1-based) on;
\* clk counts the uuid4()/time.time() draws, which makes every id fresh
RECURSIVE AddLoopQdrant(_, _, _, _, _, _)
AddLoopQdrant(chunks, i, metadata, outcomes, points, clk) ==
    IF i > Len(chunks)
    THEN [raised |-> FALSE, points |-> points, clock |-> clk, embedded |-> i - 1,
          metadata |-> metadata]
    ELSE IF ~outcomes[i].ok
    THEN [raised |-> TRUE, points |-> points, clock |-> clk, embedded |-> i,
          metadata |-> metadata]
    ELSE AddLoopQdrant(chunks, i + 1, metadata, outcomes,
                       Append(points, [id |-> clk + 1, vector |-> outcomes[i].vec,
                                       payload |-> ChunkPayload(metadata, i - 1,
                                                                chunks[i], clk + 1)]),
                       clk + 1)

\* rag_qdrant.py lines 131-181 on server state srv: the loop, then one upsert of
\* all the points if there are any
AddTextQdrant(srv, name, chunks, metadata, outcomes, clk) ==
    LET built == AddLoopQdrant(chunks, 1, metadata, outcomes, <<>>, clk)
        sent == ~built.raised /\ built.points # <<>>
        up == IF sent THEN upsert(srv, name, built.points)
              ELSE [raised |-> FALSE, srv |-> srv]
    IN  [raised |-> built.raised \/ up.raised,
         srv |-> up.srv,
         clock |-> built.clock,
         metadata |-> built.metadata,
         calls |-> EmbedCalls(built.embedded)
                   \o (IF sent THEN <<"upsert">> ELSE <<>>)]

\* rag_qdrant.py lines 204-212: payload copied and given its score
FormatResults(found) ==
    [i \in 1 .. Len(found) |-> DictSet(found[i].payload, "score", found[i].score)]

\* rag_qdrant.py lines 183-212, given the outcome of the query's embedding call
search_qdrant(srv, name, q, top_k, order) ==
    IF ~q.ok \/ SearchRefused(srv, name, q.vec, top_k)
    THEN [raised |-> TRUE, value |-> <<>>]
    ELSE [raised |-> FALSE,
          value |-> FormatResults(ScoredPoints(srv, name, q.vec, top_k, order))]

\* rag_qdrant.py lines 59-69 on server state srv, the listing and the creation
\* done without another client in between
EnsureCollectionExists(srv, name) ==
    IF name \in get_collections(srv) THEN [raised |-> FALSE, srv |-> srv, created |-> FALSE]
    ELSE LET c == create_collection(srv, name, VectorSize, "Cosine")
         IN  [raised |-> c.raised, srv |-> c.srv, created |-> TRUE]

\* clear_collection without the delete of line 258
ClearCollection_without_delete(srv, name) == EnsureCollectionExists(srv, name)

\* rag_qdrant.py lines 256-260 on server state srv
ClearCollection(srv, name) == EnsureCollectionExists(delete_collection(srv, name), name)

\* rag_qdrant.py line 37
collection_name == "knowledge_base"

\* rag_qdrant.py lines 131-181
add_text_qdrant ==
    /\ variant = "qdrant"
    /\ \E t \in RagTexts, arg \in MetaArgs :
        LET chunks == chunk_text(t, chunk_size, chunk_overlap)
        IN  /\ clock + Len(chunks) <= MaxDocs
            /\ \E outcomes \in [1 .. Len(chunks) -> EmbedOutcomes(embedding_model)] :
                LET r == AddTextQdrant(qdrant, collection_name, chunks,
                                       DefaultMetadata(arg), outcomes, clock)
                IN  /\ qdrant' = r.srv
                    /\ clock' = r.clock
                    /\ calls' = r.calls
                    /\ ret' = [op |-> "add_text", raised |-> r.raised,
                               value |-> IF r.raised THEN 0 ELSE Len(chunks),
                               text |-> t, metadata |-> arg,
                               metadata_after |-> r.metadata,
                               before |-> Len(qdrant[collection_name].points)]
    /\ UNCHANGED <<variant, embedding_model, chunk_size, chunk_overlap, embeddings,
                   documents, text, pc, seen,
                   knowledge, locals, messages, me>>

\* a call of search on the Qdrant-backed instance
call_search_qdrant ==
    /\ variant = "qdrant"
    /\ \E q \in EmbedOutcomes(embedding_model), top_k \in TopKs :
        \E order \in QueryOrders(q, PointVectors(qdrant[collection_name].points)) :
            LET r == search_qdrant(qdrant, collection_name, q, top_k, order)
            IN  /\ calls' = <<"embeddings.create">>
                              \o (IF q.ok THEN <<"qdrant.search">> ELSE <<>>)
                /\ ret' = [op |-> "search", raised |-> r.raised, value |-> r.value,
                           top_k |-> top_k, embedded |-> q.ok,
                           query_embedding |-> q.vec]
    /\ UNCHANGED <<variant, embedding_model, chunk_size, chunk_overlap, embeddings,
                   documents, qdrant, clock, text, pc, seen,
                   knowledge, locals, messages, me>>

\* rag_qdrant.py lines 251-254
get_document_count ==
    /\ variant = "qdrant"
    /\ calls' = <<"get_collection">>
    /\ ret' = [op |-> "get_document_count",
               raised |-> points_count(qdrant, collection_name).raised,
               value |-> points_count(qdrant, collection_name).value]
    /\ UNCHANGED <<variant, embedding_model, chunk_size, chunk_overlap, embeddings,
                   documents, qdrant, clock, text, pc, seen,
                   knowledge, locals, messages, me>>

\* rag_qdrant.py lines 256-260
clear_collection ==
    /\ variant = "qdrant"
    /\ LET r == ClearCollection(qdrant, collection_name)
       IN  /\ qdrant' = r.srv
           /\ calls' = <<"delete_collection", "get_collections">>
                        \o (IF r.created THEN <<"create_collection">> ELSE <<>>)
           /\ ret' = [op |-> "clear_collection", raised |-> r.raised,
                      before |-> Len(qdrant[collection_name].points)]
    /\ UNCHANGED <<variant, embedding_model, chunk_size, chunk_overlap, embeddings,
                   documents, clock, text, pc, seen,
                   knowledge, locals, messages, me>>

----------------------------------------------------------------------------
(* RAGSystem.query, the same text in both classes *)

\* rag.py line 186
DefaultSystemPrompt ==
    "You are a helpful assistant. Answer the question based only on the provided context."

\* the system_prompt arguments: None (or empty), and a caller's prompt
SystemPrompts == {<<>>, <<"Answer as Said.">>}

\* the top_k arguments of query
QueryTopKs == {1, MaxTopK}

UserQueries == {<<"Who are you?">>}

\* the outcomes of the generation call: it raises, or it returns a text
GenOutcomes == {[ok |-> FALSE, content |-> <<>>], [ok |-> TRUE, content |-> <<"answer">>]}

\* rag.py lines 181-182
ContextBlock(context_docs) ==
    Join([i \in 1 .. Len(context_docs) |-> context_docs[i]["content"]], <<"\n", "\n">>)

\* rag.py lines 185-191
Messages(context_docs, user_query, system_prompt) ==
    LET prompt == IF system_prompt = <<>> THEN <<DefaultSystemPrompt>> ELSE system_prompt
    IN  << [role |-> "system",
            content |-> prompt \o <<"\n", "\n", "Context:", "\n">>
                        \o ContextBlock(context_docs)],
           [role |-> "user", content |-> user_query] >>

\* query that hands back the sources in the opposite order
query_result_reordered(sr, gen, user_query, system_prompt) ==
    IF sr.raised
    THEN [raised |-> TRUE, value |-> <<<<>>, <<>>>>, messages |-> <<>>,
          calls |-> <<"search">>]
    ELSE [raised |-> ~gen.ok,
          value |-> IF gen.ok THEN <<gen.content, Reverse(sr.value)>> ELSE <<<<>>, <<>>>>,
          messages |-> Messages(sr.value, user_query, system_prompt),
          calls |-> <<"search", "chat.completions.create">>]

\* rag.py lines 177-200 (rag_qdrant.py lines 226-249), given what self.search did
\* (sr) and the outcome of the generation call
query_result(sr, gen, user_query, system_prompt) ==
    IF sr.raised
    THEN [raised |-> TRUE, value |-> <<<<>>, <<>>>>, messages |-> <<>>,
          calls |-> <<"search">>]
    ELSE [raised |-> ~gen.ok,
          value |-> IF gen.ok THEN <<gen.content, sr.value>> ELSE <<<<>>, <<>>>>,
          messages |-> Messages(sr.value, user_query, system_prompt),
          calls |-> <<"search", "chat.completions.create">>]

\* the vectors the instance's search scores against
StoredVectors ==
    IF variant = "memory" THEN embeddings
    ELSE PointVectors(qdrant[collection_name].points)

\* self.documents after self.search; the remote class keeps no records of its own
DocumentsAfter(q, top_k, order) ==
    IF variant = "memory"
    THEN DocumentsAfterSearch(embeddings, documents, q, top_k, order)
    ELSE documents

\* self.search of the instance's class
search(q, top_k, order) ==
    IF variant = "memory" THEN search_memory(embeddings, documents, q, top_k, order)
    ELSE search_qdrant(qdrant, collection_name, q, top_k, order)

\* a call of query, on either class
query ==
    \E q \in EmbedOutcomes(embedding_model), top_k \in QueryTopKs :
        \E order \in QueryOrders(q, StoredVectors) :
            LET sr == search(q, top_k, order)
            IN  \E gen \in GenOutcomes, user_query \in UserQueries,
                   system_prompt \in SystemPrompts :
                    LET r == query_result(sr, gen, user_query, system_prompt)
                    IN  /\ calls' = r.calls
                        /\ documents' = DocumentsAfter(q, top_k, order)
                        /\ ret' = [op |-> "query", raised |-> r.raised,
                                   value |-> r.value, messages |-> r.messages,
                                   search |-> sr, top_k |-> top_k,
                                   system_prompt |-> system_prompt,
                                   user_query |-> user_query]
                        /\ UNCHANGED <<variant, embedding_model, chunk_size,
                                       chunk_overlap, embeddings, qdrant,
                                       clock, text, pc, seen,
                                       knowledge, locals, messages, me>>

----------------------------------------------------------------------------
(* Specification of one RAGSystem instance used by one caller at a time *)

\* the state after construction: rag.py lines 24-31 leave both lists empty;
\* rag_qdrant.py lines 33-57 leave the collection in existence
Init ==
    /\ variant \in {"memory", "qdrant"}
    /\ embedding_model = "text-embedding-3-small"
    /\ \E c \in RagChunking : chunk_size = c[1] /\ chunk_overlap = c[2]
    /\ embeddings = <<>>
    /\ documents = <<>>
    /\ qdrant = [n \in CollectionNames |->
                    IF variant = "qdrant"
                    THEN [exists |-> TRUE, size |-> VectorSize, distance |-> "Cosine",
                          points |-> <<>>]
                    ELSE NoCollection]
    /\ clock = 0
    /\ calls = <<>>
    /\ ret = NoRet
    /\ text = <<>>
    /\ pc = <<>>
    /\ seen = <<>>
    /\ knowledge = <<>>
    /\ locals = <<>>
    /\ messages = <<>>
    /\ me = <<>>

Next ==
    \/ add_text_memory
    \/ call_search_memory
    \/ add_text_qdrant
    \/ call_search_qdrant
    \/ get_document_count
    \/ clear_collection
    \/ query

Spec == Init /\ [][Next]_vars

\* the state after construction under either embedding model: embedding_model is
\* a parameter of both constructors (rag.py line 13, rag_qdrant.py line 18), and
\* rag_qdrant.py line 41 sets the collection's size to 1536 whichever is given
InitDim ==
    /\ variant \in {"memory", "qdrant"}
    /\ embedding_model \in Models
    /\ \E c \in RagChunking : chunk_size = c[1] /\ chunk_overlap = c[2]
    /\ embeddings = <<>>
    /\ documents = <<>>
    /\ qdrant = [n \in CollectionNames |->
                    IF variant = "qdrant"
                    THEN [exists |-> TRUE, size |-> VectorSize, distance |-> "Cosine",
                          points |-> <<>>]
                    ELSE NoCollection]
    /\ clock = 0
    /\ calls = <<>>
    /\ ret = NoRet
    /\ text = <<>>
    /\ pc = <<>>
    /\ seen = <<>>
    /\ knowledge = <<>>
    /\ locals = <<>>
    /\ messages = <<>>
    /\ me = <<>>

SpecDim == InitDim /\ [][Next]_vars

----------------------------------------------------------------------------
(* Specification of several processes, each with its own Qdrant-backed       *)
(* RAGSystem, that share one server and one collection name.  Every request  *)
(* to the server, every embedding call and every reading of the clock or     *)
(* drawing of an id is one step; the steps of different processes            *)
(* interleave.  Here `clock` counts the readings of time.time() and the      *)
(* draws of uuid4() apart.                                                   *)

\* number of client processes
NumProcs == 2

Procs == 1 .. NumProcs

InitRace ==
    /\ variant = "qdrant"
    /\ embedding_model = "text-embedding-3-small"
    /\ \E c \in RagChunking : chunk_size = c[1] /\ chunk_overlap = c[2]
    /\ embeddings = <<>>
    /\ documents = <<>>
    /\ qdrant = [n \in CollectionNames |-> NoCollection]
    /\ clock = [time |-> 0, uuid |-> 0]
    /\ calls = <<>>
    /\ ret = NoRet
    /\ text = <<>>
    /\ pc = [p \in Procs |-> "new"]
    /\ seen = [p \in Procs |-> {}]
    /\ knowledge = <<>>
    /\ locals = [p \in Procs |-> <<>>]
    /\ messages = <<>>
    /\ me = <<>>

\* rag_qdrant.py lines 61-62, in __init__ (pc "new") or in clear_collection
\* (pc "clear_list"): the process lists the collections
ensure_list(p) ==
    /\ pc[p] \in {"new", "clear_list"}
    /\ seen' = [seen EXCEPT ![p] = get_collections(qdrant)]
    /\ pc' = [pc EXCEPT ![p] = IF pc[p] = "new" THEN "init_create" ELSE "clear_create"]
    /\ calls' = <<"get_collections">>
    /\ ret' = [op |-> "get_collections", proc |-> p, raised |-> FALSE,
               existed |-> qdrant[collection_name].exists]
    /\ UNCHANGED <<variant, embedding_model, chunk_size, chunk_overlap, embeddings,
                   documents, qdrant, clock, text,
                   knowledge, locals, messages, me>>

\* rag_qdrant.py lines 64-69: the process creates the collection if the list it
\* got did not name it; a refused creation makes __init__ raise, and the process
\* is left without an instance
ensure_create(p) ==
    /\ pc[p] \in {"init_create", "clear_create"}
    /\ IF collection_name \in seen[p]
       THEN /\ pc' = [pc EXCEPT ![p] = "ready"]
            /\ calls' = <<>>
            /\ ret' = [op |-> "ensured", proc |-> p, raised |-> FALSE,
                       existed |-> qdrant[collection_name].exists]
            /\ UNCHANGED qdrant
       ELSE LET r == create_collection(qdrant, collection_name, VectorSize, "Cosine")
            IN  /\ qdrant' = r.srv
                /\ pc' = [pc EXCEPT ![p] = IF r.raised /\ pc[p] = "init_create"
                                           THEN "new" ELSE "ready"]
                /\ calls' = <<"create_collection">>
                /\ ret' = [op |-> "create_collection", proc |-> p,
                           raised |-> r.raised,
                           existed |-> qdrant[collection_name].exists]
    /\ UNCHANGED <<variant, embedding_model, chunk_size, chunk_overlap, embeddings,
                   documents, clock, text, seen,
                   knowledge, locals, messages, me>>

\* rag_qdrant.py line 258: clear_collection deletes the collection
clear_delete(p) ==
    /\ pc[p] = "ready"
    /\ qdrant' = delete_collection(qdrant, collection_name)
    /\ pc' = [pc EXCEPT ![p] = "clear_list"]
    /\ calls' = <<"delete_collection">>
    /\ ret' = [op |-> "delete_collection", proc |-> p, raised |-> FALSE,
               existed |-> qdrant[collection_name].exists]
    /\ UNCHANGED <<variant, embedding_model, chunk_size, chunk_overlap, embeddings,
                   documents, clock, text, seen,
                   knowledge, locals, messages, me>>

\* the chunks a process has taken on in the add_text it is running and not
\* yet given their time stamp
Unstamped(p) ==
    IF pc[p] \in {"embed", "stamp", "id"}
    THEN Len(locals[p].chunks) - Len(locals[p].points)
    ELSE 0

RECURSIVE SumUnstamped(_)
SumUnstamped(P) ==
    IF P = {} THEN 0
    ELSE LET p == CHOOSE q \in P : TRUE
         IN  Unstamped(p) + SumUnstamped(P \ {p})

\* the end of an add_text call of process p
AddTextEnds(p, raised) ==
    /\ pc' = [pc EXCEPT ![p] = "ready"]
    /\ locals' = [locals EXCEPT ![p] = <<>>]
    /\ ret' = [op |-> "add_text", proc |-> p, raised |-> raised,
               existed |-> qdrant[collection_name].exists]

\* rag_qdrant.py lines 142-152: add_text is called; the text is chunked; with no
\* chunk the call returns 0 without a request (lines 175-181)
add_text_shared(p) ==
    /\ pc[p] = "ready"
    /\ \E t \in RagTexts, arg \in MetaArgs :
        LET chunks == chunk_text(t, chunk_size, chunk_overlap)
        IN  /\ clock.time + SumUnstamped(Procs) + Len(chunks) <= MaxDocs
            /\ IF chunks = <<>>
               THEN AddTextEnds(p, FALSE)
               ELSE /\ pc' = [pc EXCEPT ![p] = "embed"]
                    /\ locals' = [locals EXCEPT ![p] =
                                    [chunks |-> chunks, metadata |-> DefaultMetadata(arg),
                                     points |-> <<>>, embedding |-> NoVec,
                                     created_at |-> 0]]
                    /\ ret' = [op |-> "add_text_call", proc |-> p, raised |-> FALSE,
                               existed |-> qdrant[collection_name].exists]
    /\ calls' = <<>>
    /\ UNCHANGED <<variant, embedding_model, chunk_size, chunk_overlap, embeddings,
                   documents, qdrant, clock, text, seen, knowledge, messages, me>>

\* rag_qdrant.py line 154: the embedding call of the next chunk; when it raises,
\* add_text raises and nothing is sent
add_text_shared_embed(p) ==
    /\ pc[p] = "embed"
    /\ \E o \in EmbedOutcomes(embedding_model) :
        IF o.ok
        THEN /\ pc' = [pc EXCEPT ![p] = "stamp"]
             /\ locals' = [locals EXCEPT ![p].embedding = o.vec]
             /\ ret' = [op |-> "embed", proc |-> p, raised |-> FALSE,
                        existed |-> qdrant[collection_name].exists]
        ELSE AddTextEnds(p, TRUE)
    /\ calls' = <<"embeddings.create">>
    /\ UNCHANGED <<variant, embedding_model, chunk_size, chunk_overlap, embeddings,
                   documents, qdrant, clock, text, seen, knowledge, messages, me>>

\* rag_qdrant.py line 160: time.time() is read for the chunk
add_text_shared_stamp(p) ==
    /\ pc[p] = "stamp"
    /\ clock' = [clock EXCEPT !.time = @ + 1]
    /\ locals' = [locals EXCEPT ![p].created_at = clock.time + 1]
    /\ pc' = [pc EXCEPT ![p] = "id"]
    /\ calls' = <<>>
    /\ ret' = [op |-> "stamp", proc |-> p, raised |-> FALSE,
               existed |-> qdrant[collection_name].exists]
    /\ UNCHANGED <<variant, embedding_model, chunk_size, chunk_overlap, embeddings,
                   documents, qdrant, text, seen, knowledge, messages, me>>

\* rag_qdrant.py lines 163-172: uuid4() is drawn and the point is put on the
\* batch; after the last chunk the upsert is next
add_text_shared_id(p) ==
    /\ pc[p] = "id"
    /\ LET l == locals[p]
           i == Len(l.points) + 1
           point == [id |-> clock.uuid + 1, vector |-> l.embedding,
                     payload |-> ChunkPayload(l.metadata, i - 1, l.chunks[i],
                                              l.created_at)]
       IN  /\ locals' = [locals EXCEPT ![p].points = Append(@, point)]
           /\ pc' = [pc EXCEPT ![p] = IF i = Len(l.chunks) THEN "upsert" ELSE "embed"]
    /\ clock' = [clock EXCEPT !.uuid = @ + 1]
    /\ calls' = <<>>
    /\ ret' = [op |-> "id", proc |-> p, raised |-> FALSE,
               existed |-> qdrant[collection_name].exists]
    /\ UNCHANGED <<variant, embedding_model, chunk_size, chunk_overlap, embeddings,
                   documents, qdrant, text, seen, knowledge, messages, me>>

\* rag_qdrant.py lines 175-181: the one request add_text sends, then the return
add_text_shared_upsert(p) ==
    /\ pc[p] = "upsert"
    /\ LET r == upsert(qdrant, collection_name, locals[p].points)
       IN  /\ qdrant' = r.srv
           /\ AddTextEnds(p, r.raised)
    /\ calls' = <<"upsert">>
    /\ UNCHANGED <<variant, embedding_model, chunk_size, chunk_overlap, embeddings,
                   documents, clock, text, seen, knowledge, messages, me>>

NextRace ==
    \E p \in Procs :
        \/ ensure_list(p)
        \/ ensure_create(p)
        \/ clear_delete(p)
        \/ add_text_shared(p)
        \/ add_text_shared_embed(p)
        \/ add_text_shared_stamp(p)
        \/ add_text_shared_id(p)
        \/ add_text_shared_upsert(p)

SpecRace == InitRace /\ [][NextRace]_vars

----------------------------------------------------------------------------
(* The server process of main.py: the Me instance, the directory             *)
(* me/knowledge and the RAG system me.rag refers to                          *)

\* most requests the server process and the processes before it take on
MaxRequests == 2
\* most files the directory me/knowledge holds
MaxFiles == 1

\* main.py lines 142-150: the texts read from me/linkedin.pdf and me/summary.txt
SummaryText == <<"a", ".">>
LinkedinText == <<"b", ".">>

\* main.py lines 186-187: the sources the two texts are added under (strings,
\* as the file names are)
SummarySource == <<"s", "u", "m", "m", "a", "r", "y">>
LinkedinSource == <<"l", "i", "n", "k", "e", "d", "i", "n">>

\* main.py lines 156-157
LinkedinMissing ==
    <<"L", "i", "n", "k", "e", "d", "I", "n", " ", "p", "r", "o", "f", "i", "l",
      "e", " ", "n", "o", "t", " ", "a", "v", "a", "i", "l", "a", "b", "l", "e">>
SummaryMissing ==
    <<"S", "u", "m", "m", "a", "r", "y", " ", "n", "o", "t", " ", "a", "v", "a",
      "i", "l", "a", "b", "l", "e">>

\* the process is not running: there is no Me instance.  `rag` is the identity
\* of the RAGSystem instance me.rag refers to (0 for None), `made` the number of
\* instances the running process has made, `served` the number of requests the
\* process and the processes before it have taken on.
NoMe == [summary |-> <<>>, linkedin |-> <<>>, rag |-> 0, made |-> 0, served |-> 0]

\* v handed to Op as a value: v is worked out once, however often Op uses it
Bind(v, Op(_)) == CHOOSE y \in {Op(x) : x \in {v}} : TRUE

\* str.lower(), on the letters of the model's file names
LowerChar(c) == IF c = "T" THEN "t" ELSE IF c = "X" THEN "x" ELSE c
Lower(s) == [i \in 1 .. Len(s) |-> LowerChar(s[i])]

\* 1-based position of the last "." of a name, 0 if it has none
LastDot(name) ==
    IF \E i \in 1 .. Len(name) : name[i] = "."
    THEN CHOOSE i \in 1 .. Len(name) :
            name[i] = "." /\ \A j \in i + 1 .. Len(name) : name[j] # "."
    ELSE 0

\* pathlib: a name has a suffix when its last dot is neither its first nor its
\* last character
HasSuffix(name) == 1 < LastDot(name) /\ LastDot(name) < Len(name)

\* Path(name).suffix
Suffix(name) ==
    IF HasSuffix(name) THEN SubSeq(name, LastDot(name), Len(name)) ELSE <<>>

\* Path(name).stem
Stem(name) ==
    IF HasSuffix(name) THEN SubSeq(name, 1, LastDot(name) - 1) ELSE name

\* str.endswith
EndsWith(s, suffix) ==
    Len(suffix) <= Len(s) /\ SubSeq(s, Len(s) - Len(suffix) + 1, Len(s)) = suffix

DotTxt == <<".", "t", "x", "t">>
DotPdf == <<".", "p", "d", "f">>

\* main.py line 299: the characters a file name keeps (str.isalnum on the
\* letters of the model's names, and ' ', '.', '_', '-')
KeptInName(c) ==
    c \in {"n", "m", "t", "x", "p", "d", "f", "T", "X", " ", ".", "_", "-"}

\* main.py lines 297-302
FinalFilename(filename, custom_name) ==
    LET base_name == IF custom_name # <<>> THEN custom_name ELSE Stem(filename)
    IN  Strip(SelectSeq(base_name, KeptInName)) \o Lower(Suffix(filename))

\* The content of a file: `opens` says whether the name can be opened at all (a
\* link to a file that is gone cannot: FileNotFoundError), `ok` whether it can
\* be read as what its name says (UTF-8 text for open(..., encoding='utf-8'), a
\* PDF for PdfReader); `text` is the text read from it, for a PDF the text of
\* its one page.
ReadableFile == [opens |-> TRUE, ok |-> TRUE, text |-> <<"c", ".">>]
BrokenFile == [opens |-> TRUE, ok |-> FALSE, text |-> <<>>]
MissingFile == [opens |-> FALSE, ok |-> FALSE, text |-> <<>>]

\* what /upload writes into the directory: a file of its own, readable or not
FileContents == {ReadableFile, BrokenFile}

\* a file that open(path, "wb") has made or truncated and nothing is written
\* to yet: no text to read, and no PDF
EmptyFile(extension) ==
    [opens |-> TRUE, ok |-> extension # DotPdf, text |-> <<>>]

\* the exception a file raises when it is opened and read, "none" if it is read
FileError(content) ==
    IF ~content.opens THEN "FileNotFoundError"
    ELSE IF ~content.ok THEN "other" ELSE "none"

\* rag.py lines 84-89 (rag_qdrant.py lines 122-127): the text add_pdf extracts
PdfText(content) == IF content.text # <<>> THEN content.text \o <<" ">> ELSE <<>>

\* os.listdir: the names of a directory in an order the system chooses
ListDirs(dir) ==
    {s \in [1 .. Cardinality(DOMAIN dir) -> DOMAIN dir] :
        \A i, j \in 1 .. Len(s) : i # j => s[i] # s[j]}

\* What me.rag refers to: the class of the instance (variant "none" for None),
\* the lists of an in-memory instance, and the server with its id/time counter.
RagState(v, embs, docs, srv, clk) ==
    [variant |-> v, embeddings |-> embs, documents |-> docs, srv |-> srv,
     clock |-> clk]

\* number of chunks in the store me.rag refers to
StoredCount(st) ==
    IF st.variant = "memory" THEN Len(st.documents)
    ELSE IF st.variant = "qdrant" THEN Len(st.srv[collection_name].points)
    ELSE 0

\* rag.add_text(t, metadata) on the instance of state st (rag.py lines 93-124,
\* rag_qdrant.py lines 131-181); o is the outcome of its embedding calls
RagAddText(st, t, metadata, o) ==
    Bind(chunk_text(t, chunk_size, chunk_overlap), LAMBDA chunks :
        LET outcomes == [i \in 1 .. Len(chunks) |-> o]
        IN  IF st.variant = "memory"
            THEN Bind(AddLoopMemory(chunks, 1, metadata, outcomes,
                                    st.embeddings, st.documents), LAMBDA r :
                    [raised |-> r.raised, error |-> IF r.raised THEN "other" ELSE "none",
                     value |-> Len(chunks),
                     st |-> [st EXCEPT !.embeddings = r.embeddings,
                                       !.documents = r.documents]])
            ELSE Bind(AddTextQdrant(st.srv, collection_name, chunks, metadata,
                                    outcomes, st.clock), LAMBDA r :
                    [raised |-> r.raised, error |-> IF r.raised THEN "other" ELSE "none",
                     value |-> Len(chunks),
                     st |-> [st EXCEPT !.srv = r.srv, !.clock = r.clock]]))

\* rag.add_pdf(path, metadata) (rag.py lines 69-91, rag_qdrant.py lines 107-129):
\* PdfReader raises on a name it cannot open and on a file it cannot parse
RagAddPdf(st, content, metadata, o) ==
    IF FileError(content) # "none"
    THEN [raised |-> TRUE, error |-> FileError(content), value |-> 0, st |-> st]
    ELSE RagAddText(st, PdfText(content), metadata, o)

\* main.py lines 194-199 (and 311-316): index one file under its name; a file
\* that is neither .pdf nor .txt is passed over
IndexFile(st, name, content, o) ==
    IF EndsWith(Lower(name), DotPdf)
    THEN RagAddPdf(st, content, [source |-> name], o)
    ELSE IF EndsWith(Lower(name), DotTxt)
    THEN IF FileError(content) # "none"
         THEN [raised |-> TRUE, error |-> FileError(content), value |-> 0, st |-> st]
         ELSE RagAddText(st, content.text, [source |-> name], o)
    ELSE [raised |-> FALSE, error |-> "none", value |-> 0, st |-> st]

\* main.py lines 191-199: the loop over the directory, from the i-th name on;
\* outs[i] is the outcome of the embedding calls made for the i-th name
RECURSIVE AddKnowledge(_, _, _, _, _)
AddKnowledge(st, dir, names, i, outs) ==
    IF i > Len(names) THEN [raised |-> FALSE, error |-> "none", st |-> st]
    ELSE Bind(IndexFile(st, names[i], dir[names[i]], outs[i]), LAMBDA r :
            IF r.raised THEN [raised |-> TRUE, error |-> r.error, st |-> r.st]
            ELSE AddKnowledge(r.st, dir, names, i + 1, outs))

\* main.py lines 185-199: the summary, the LinkedIn text, then the directory;
\* base[1], base[2] are the outcomes of the embedding calls of the first two
Populate(st, who, dir, names, base, outs) ==
    Bind(RagAddText(st, who.summary, [source |-> SummarySource], base[1]), LAMBDA s :
        IF s.raised THEN [raised |-> TRUE, error |-> s.error, st |-> s.st]
        ELSE Bind(RagAddText(s.st, who.linkedin, [source |-> LinkedinSource], base[2]),
                  LAMBDA l :
                IF l.raised THEN [raised |-> TRUE, error |-> l.error, st |-> l.st]
                ELSE AddKnowledge(l.st, dir, names, 1, outs)))

\* how the remote store answers while initialize_rag runs: every request is
\* served, the construction of the instance raises (QDRANT_URL is not set, the
\* server cannot be reached), or the reading of the document count raises
Remotes == {"ok", "construct_raises", "count_raises"}

\* main.py lines 164-171: the construction of the remote instance, which
\* ensures the collection, and the reading of its document count
InitRemote(srv, remote) ==
    LET ensured == EnsureCollectionExists(srv, collection_name)
        constructed == remote # "construct_raises" /\ ~ensured.raised
        srv1 == IF constructed THEN ensured.srv ELSE srv
        count == points_count(srv1, collection_name)
        failed == ~constructed \/ remote = "count_raises" \/ count.raised
    IN  [failed |-> failed, srv |-> srv1,
         doc_count |-> IF failed THEN 0 ELSE count.value]

\* main.py lines 159-199 run by one thread alone, from the state st of me.rag,
\* for the Me instance who and the directory dir: `failed` says that line 164 or
\* 171 raised, `created` is the instance as it was made, `st` what it is when
\* initialize_rag ends, `error` the exception that escapes it
initialize_rag(st, who, dir, remote, names, base, outs) ==
    LET r == InitRemote(st.srv, remote)
        fresh == IF r.failed THEN RagState("memory", <<>>, <<>>, r.srv, st.clock)
                 ELSE RagState("qdrant", <<>>, <<>>, r.srv, st.clock)
    IN  IF ~r.failed /\ r.doc_count > 0
        THEN [raised |-> FALSE, error |-> "none", failed |-> FALSE,
              fallback |-> FALSE, doc_count |-> r.doc_count, populated |-> FALSE,
              created |-> fresh, st |-> fresh]
        ELSE Bind(Populate(fresh, who, dir, names, base, outs), LAMBDA p :
                [raised |-> p.raised, error |-> p.error, failed |-> r.failed,
                 fallback |-> r.failed, doc_count |-> 0, populated |-> TRUE,
                 created |-> fresh, st |-> p.st])

\* the outcomes of the embedding calls made for one text: the call raises or
\* returns a vector (nothing the server process does looks at its direction)
MeEmbedOutcomes ==
    {o \in EmbedOutcomes(embedding_model) : o.ok => o.vec.xy = <<5, 0>>}

\* The threads of the running server process: the event-loop thread, on which
\* the coroutine upload_file runs from its first line to its last, and the
\* worker threads, on which the plain function get_rag_system runs (main.py
\* lines 246 and 279: `def` and `async def`).
Workers == {"w1", "w2"}
ServerThreads == {"loop"} \cup Workers

\* the local variables of a thread that is in no handler
IdleLocals ==
    [stage |-> "none", seen |-> {}, names |-> <<>>, i |-> 0, self |-> 0,
     kind |-> "none", chunks |-> <<>>, metadata |-> <<>>, k |-> 0,
     points |-> <<>>, embedding |-> NoVec, created_at |-> 0, content |-> <<>>,
     failed |-> FALSE, instance |-> 0, doc_count |-> 0, added |-> <<>>,
     filename |-> <<>>,
     extension |-> <<>>, upload |-> <<>>, saved |-> FALSE, stored |-> 0]

\* what `ret` holds after a step that ends no handler
StepRet == [op |-> "step"]

\* the files the directory me/knowledge can hold when the process first starts:
\* none, or one name that cannot be opened (a link to a file that is gone)
InitialDirs ==
    {EmptyDict,
     DictSet(EmptyDict, <<"n", ".", "p", "d", "f">>, MissingFile),
     DictSet(EmptyDict, <<"n", ".", "t", "x", "t">>, MissingFile)}

\* main.py line 244 with lines 136-157: the process starts (again) and builds
\* its Me instance, before any request is served.  A FileNotFoundError, raised
\* by the reading of the two profile files or anywhere inside initialize_rag
\* (line 153), is caught at line 154: me.rag keeps what it was given and the
\* two texts are replaced; any other exception ends the process.  The ids and
\* times of a process are past those of the processes before it.
Me_init ==
    /\ pc["main"] = "down"
    /\ \/ /\ me' = [summary |-> SummaryMissing, linkedin |-> LinkedinMissing,
                    rag |-> 0, made |-> 0, served |-> me.served]
          /\ variant' = "none"
          /\ embeddings' = <<>>
          /\ documents' = <<>>
          /\ pc' = [t \in {"main"} \cup ServerThreads |->
                        IF t = "main" THEN "up" ELSE "idle"]
          /\ calls' = <<>>
          /\ ret' = [op |-> "Me", raised |-> FALSE, caught |-> TRUE,
                     initialized |-> FALSE]
          /\ UNCHANGED <<qdrant, clock>>
       \/ \E remote \in Remotes, names \in ListDirs(knowledge),
             base \in [1 .. 2 -> MeEmbedOutcomes],
             outs \in [1 .. Cardinality(DOMAIN knowledge) -> MeEmbedOutcomes] :
            \E who \in {[summary |-> SummaryText, linkedin |-> LinkedinText]} :
            \E r \in {initialize_rag(RagState("none", <<>>, <<>>, qdrant,
                                              Max(clock.time, clock.uuid)),
                                     who, knowledge, remote, names, base, outs)} :
            \E caught \in {r.raised /\ r.error = "FileNotFoundError"} :
            \E died \in {r.raised /\ ~caught} :
                /\ me' = IF died THEN [NoMe EXCEPT !.served = me.served]
                         ELSE IF caught
                         THEN [summary |-> SummaryMissing,
                               linkedin |-> LinkedinMissing, rag |-> 1, made |-> 1,
                               served |-> me.served]
                         ELSE [summary |-> who.summary, linkedin |-> who.linkedin,
                               rag |-> 1, made |-> 1, served |-> me.served]
                /\ variant' = IF died THEN "none" ELSE r.st.variant
                /\ embeddings' = IF died THEN <<>> ELSE r.st.embeddings
                /\ documents' = IF died THEN <<>> ELSE r.st.documents
                /\ qdrant' = r.st.srv
                /\ clock' = [time |-> r.st.clock, uuid |-> r.st.clock]
                /\ pc' = [t \in {"main"} \cup ServerThreads |->
                            IF t = "main" THEN (IF died THEN "down" ELSE "up")
                            ELSE "idle"]
                /\ calls' = <<"initialize_rag">>
                /\ ret' = [op |-> "Me", raised |-> died, caught |-> caught,
                           initialized |-> TRUE, failed |-> r.failed,
                           fallback |-> r.fallback, doc_count |-> r.doc_count,
                           populated |-> r.populated,
                           created |-> StoredCount(r.created)]
    /\ locals' = [t \in ServerThreads |-> IdleLocals]
    /\ UNCHANGED <<embedding_model, chunk_size, chunk_overlap, text, seen,
                   knowledge, messages>>

\* the process is stopped, whatever its threads are doing: the remote store,
\* the directory me/knowledge and the clock outlive it
process_ends ==
    /\ pc["main"] = "up"
    /\ pc' = [t \in {"main"} \cup ServerThreads |->
                IF t = "main" THEN "down" ELSE "idle"]
    /\ locals' = [t \in ServerThreads |-> IdleLocals]
    /\ me' = [NoMe EXCEPT !.served = me.served]
    /\ variant' = "none"
    /\ embeddings' = <<>>
    /\ documents' = <<>>
    /\ calls' = <<>>
    /\ ret' = [op |-> "exit"]
    /\ UNCHANGED <<embedding_model, chunk_size, chunk_overlap, qdrant, clock, text,
                   seen, knowledge, messages>>

\* A handler ends on thread t, whose local variables are l.  get_rag_system
\* returns me.rag or lets the exception of initialize_rag escape; upload_file
\* answers 200 (main.py lines 318-322) or, the exception being caught at line
\* 324, 500 with str(e) as `cause` (line 325).
HandlerEnds(t, l, raised, cause) ==
    /\ pc' = [pc EXCEPT ![t] = "idle"]
    /\ locals' = [locals EXCEPT ![t] = IdleLocals]
    /\ ret' = IF l.stage = "upload"
              THEN [op |-> "upload_file",
                    status |-> IF raised THEN 500 ELSE 200,
                    detail |-> IF raised THEN <<"Error uploading file: ", cause>>
                               ELSE <<>>,
                    filename |-> IF raised THEN <<>> ELSE l.filename,
                    chunks_indexed |-> IF raised THEN 0 ELSE Len(l.chunks),
                    extension |-> l.extension, saved |-> l.saved,
                    stored |-> l.stored]
              ELSE [op |-> "get_rag_system", thread |-> t, raised |-> raised,
                    initialized |-> TRUE, failed |-> l.failed,
                    instance |-> l.instance, doc_count |-> l.doc_count, populated |-> l.doc_count = 0,
                    added |-> l.added]

\* add_text has returned on thread t: the statement after the call is next
\* (main.py line 187 after 186, 190 after 187, the next round of the loop of
\* line 191 after 195 or 199, line 318 after 312 or 316)
AddTextReturns(t, l) ==
    LET m == [l EXCEPT !.added = Append(@, [source |-> l.metadata["source"],
                                            chunks |-> l.chunks])]
    IN  IF l.stage = "summary"
        THEN /\ pc' = [pc EXCEPT ![t] = "text"]
             /\ locals' = [locals EXCEPT ![t] = [m EXCEPT !.stage = "linkedin"]]
             /\ ret' = StepRet
        ELSE IF l.stage = "linkedin"
        THEN /\ pc' = [pc EXCEPT ![t] = "listdir"]
             /\ locals' = [locals EXCEPT ![t] = [m EXCEPT !.stage = "files"]]
             /\ ret' = StepRet
        ELSE IF l.stage = "files" /\ l.i < Len(l.names)
        THEN /\ pc' = [pc EXCEPT ![t] = "file"]
             /\ locals' = [locals EXCEPT ![t] = [m EXCEPT !.i = @ + 1]]
             /\ ret' = StepRet
        ELSE HandlerEnds(t, m, FALSE, "")

\* rag.py lines 104-108, rag_qdrant.py lines 142-152: add_text is entered on
\* thread t with the instance l.self; the text is chunked; with no chunk the
\* call returns 0
AddTextEntered(t, l, content, metadata) ==
    \E chunks \in {chunk_text(content, chunk_size, chunk_overlap)} :
        \E m \in {[l EXCEPT !.chunks = chunks, !.metadata = metadata, !.k = 0,
                            !.points = <<>>]} :
            IF chunks = <<>>
            THEN AddTextReturns(t, m)
            ELSE /\ pc' = [pc EXCEPT ![t] = "embed"]
                 /\ locals' = [locals EXCEPT ![t] = m]
                 /\ ret' = StepRet

\* main.py lines 246-250: a request makes a worker thread resolve the
\* dependency (the threads of the pool are alike: the first idle one takes
\* it); the thread reads me.rag (line 248)
get_rag_system(w) ==
    /\ pc["main"] = "up"
    /\ pc[w] = "idle"
    /\ \A v \in Workers : pc[v] = "idle" => w = "w1" \/ v # "w1"
    /\ me.served < MaxRequests
    /\ me' = [me EXCEPT !.served = @ + 1]
    /\ IF me.rag # 0
       THEN /\ ret' = [op |-> "get_rag_system", thread |-> w, raised |-> FALSE,
                       initialized |-> FALSE]
            /\ UNCHANGED pc
       ELSE /\ pc' = [pc EXCEPT ![w] = "construct"]
            /\ ret' = StepRet
    /\ calls' = <<>>
    /\ UNCHANGED <<variant, embedding_model, chunk_size, chunk_overlap, embeddings,
                   documents, qdrant, clock, text, seen, knowledge, locals,
                   messages>>

\* main.py line 164 with rag_qdrant.py lines 26-62: the constructor raises before
\* any request (QDRANT_URL is not set, the server cannot be reached) or lists
\* the collections
initialize_rag_list(w) ==
    /\ pc[w] = "construct"
    /\ \E reached \in BOOLEAN :
        IF reached
        THEN /\ locals' = [locals EXCEPT ![w].seen = get_collections(qdrant)]
             /\ pc' = [pc EXCEPT ![w] = "create"]
             /\ calls' = <<"get_collections">>
        ELSE /\ pc' = [pc EXCEPT ![w] = "fallback"]
             /\ calls' = <<>>
             /\ UNCHANGED locals
    /\ ret' = StepRet
    /\ UNCHANGED <<variant, embedding_model, chunk_size, chunk_overlap, embeddings,
                   documents, qdrant, clock, text, seen, knowledge, messages, me>>

\* rag_qdrant.py lines 64-69: the list did not name the collection and the
\* request to create it is sent; a refused creation makes the constructor
\* raise.  A collection the list named is left alone.  The thread then returns
\* from the constructor, and the assignment of main.py line 164 is still to
\* come.
initialize_rag_create(w) ==
    /\ pc[w] = "create"
    /\ \E r \in {IF collection_name \in locals[w].seen
                 THEN [raised |-> FALSE, srv |-> qdrant, calls |-> <<>>]
                 ELSE [raised |-> create_collection(qdrant, collection_name,
                                                    VectorSize, "Cosine").raised,
                       srv |-> create_collection(qdrant, collection_name,
                                                 VectorSize, "Cosine").srv,
                       calls |-> <<"create_collection">>]} :
        /\ qdrant' = r.srv
        /\ calls' = r.calls
        /\ pc' = [pc EXCEPT ![w] = IF r.raised THEN "fallback" ELSE "assign"]
    /\ ret' = StepRet
    /\ UNCHANGED <<variant, embedding_model, chunk_size, chunk_overlap, embeddings,
                   documents, clock, text, seen, knowledge, locals, messages, me>>

\* main.py line 164, the assignment: me.rag is the instance the thread has
\* constructed
initialize_rag_assign(w) ==
    /\ pc[w] = "assign"
    /\ me' = [me EXCEPT !.rag = me.made + 1, !.made = @ + 1]
    /\ variant' = "qdrant"
    /\ embeddings' = <<>>
    /\ documents' = <<>>
    /\ pc' = [pc EXCEPT ![w] = "count"]
    /\ calls' = <<>>
    /\ ret' = StepRet
    /\ UNCHANGED <<embedding_model, chunk_size, chunk_overlap, qdrant, clock, text,
                   seen, knowledge, locals, messages>>

\* main.py line 171, the call: self.rag is read again and its
\* get_document_count is called.  When another thread has made me.rag an
\* in-memory instance, which has no get_document_count, the call raises
\* AttributeError; otherwise the request for the collection is sent
\* (rag_qdrant.py line 253) and the thread waits for the answer.
initialize_rag_count(w) ==
    /\ pc[w] = "count"
    /\ pc' = [pc EXCEPT ![w] = IF variant = "memory" THEN "fallback" ELSE "counting"]
    /\ locals' = [locals EXCEPT ![w].self = me.rag, ![w].kind = variant]
    /\ calls' = <<>>
    /\ ret' = StepRet
    /\ UNCHANGED <<variant, embedding_model, chunk_size, chunk_overlap, embeddings,
                   documents, qdrant, clock, text, seen, knowledge, messages, me>>

\* rag_qdrant.py lines 253-254 with main.py lines 171-176: the server answers
\* with the collection as it is now, or the request fails; a count above 0
\* makes initialize_rag return (and get_rag_system with it)
initialize_rag_count_answer(w) ==
    /\ pc[w] = "counting"
    /\ \E answered \in BOOLEAN :
        \E r \in {points_count(qdrant, collection_name)} :
            IF ~answered \/ r.raised
            THEN /\ pc' = [pc EXCEPT ![w] = "fallback"]
                 /\ ret' = StepRet
                 /\ UNCHANGED locals
            ELSE IF r.value > 0
            THEN HandlerEnds(w, [locals[w] EXCEPT !.doc_count = r.value], FALSE, "")
            ELSE /\ pc' = [pc EXCEPT ![w] = "text"]
                 /\ locals' = [locals EXCEPT ![w].stage = "summary"]
                 /\ ret' = StepRet
    /\ calls' = <<"get_collection">>
    /\ UNCHANGED <<variant, embedding_model, chunk_size, chunk_overlap, embeddings,
                   documents, qdrant, clock, text, seen, knowledge, messages, me>>

\* main.py lines 177-183: the exception of line 164 or 171 is caught and me.rag
\* is a new InMemoryRAGSystem, whatever me.rag referred to
initialize_rag_fallback(w) ==
    /\ pc[w] = "fallback"
    /\ me' = [me EXCEPT !.rag = me.made + 1, !.made = @ + 1]
    /\ variant' = "memory"
    /\ embeddings' = <<>>
    /\ documents' = <<>>
    /\ pc' = [pc EXCEPT ![w] = "text"]
    /\ locals' = [locals EXCEPT ![w].stage = "summary", ![w].failed = TRUE,
                                ![w].instance = me.made + 1]
    /\ calls' = <<>>
    /\ ret' = [op |-> "fallback", thread |-> w]
    /\ UNCHANGED <<embedding_model, chunk_size, chunk_overlap, qdrant, clock, text,
                   seen, knowledge, messages>>

\* main.py lines 186 and 187: self.rag is read and its add_text is called with
\* the summary or the LinkedIn text
initialize_rag_text(w) ==
    /\ pc[w] = "text"
    /\ AddTextEntered(w, [locals[w] EXCEPT !.self = me.rag, !.kind = variant],
                      IF locals[w].stage = "summary" THEN me.summary
                      ELSE me.linkedin,
                      [source |-> IF locals[w].stage = "summary" THEN SummarySource
                                  ELSE LinkedinSource])
    /\ calls' = <<>>
    /\ UNCHANGED <<variant, embedding_model, chunk_size, chunk_overlap, embeddings,
                   documents, qdrant, clock, text, seen, knowledge, messages, me>>

\* main.py lines 190-191: the names of the directory me/knowledge are listed
initialize_rag_listdir(w) ==
    /\ pc[w] = "listdir"
    /\ \E names \in ListDirs(knowledge) :
        IF names = <<>>
        THEN HandlerEnds(w, locals[w], FALSE, "")
        ELSE /\ pc' = [pc EXCEPT ![w] = "file"]
             /\ locals' = [locals EXCEPT ![w].names = names, ![w].i = 1]
             /\ ret' = StepRet
    /\ calls' = <<>>
    /\ UNCHANGED <<variant, embedding_model, chunk_size, chunk_overlap, embeddings,
                   documents, qdrant, clock, text, seen, knowledge, messages, me>>

\* main.py lines 194-198 and 311-315, the first access of the branch taken for
\* the file l.names[l.i]: for a .pdf, me.rag is read for its add_pdf (None has
\* no add_pdf: AttributeError); for a .txt, the file is opened and read; a name
\* that is neither is passed over
index_file(t) ==
    /\ pc[t] = "file"
    /\ \E l \in {locals[t]} :
       \E name \in {l.names[l.i]} :
        IF EndsWith(Lower(name), DotPdf)
        THEN IF me.rag = 0
             THEN HandlerEnds(t, l, TRUE, "'NoneType' object has no attribute 'add_pdf'")
             ELSE /\ pc' = [pc EXCEPT ![t] = "pdf_read"]
                  /\ locals' = [locals EXCEPT ![t].self = me.rag,
                                              ![t].kind = variant]
                  /\ ret' = StepRet
        ELSE IF EndsWith(Lower(name), DotTxt)
        THEN IF FileError(knowledge[name]) # "none"
             THEN HandlerEnds(t, l, TRUE, FileError(knowledge[name]))
             ELSE /\ pc' = [pc EXCEPT ![t] = "txt_add"]
                  /\ locals' = [locals EXCEPT ![t].content = knowledge[name].text]
                  /\ ret' = StepRet
        ELSE IF l.i < Len(l.names)
        THEN /\ pc' = [pc EXCEPT ![t] = "file"]
             /\ locals' = [locals EXCEPT ![t].i = @ + 1]
             /\ ret' = StepRet
        ELSE HandlerEnds(t, l, FALSE, "")
    /\ calls' = <<>>
    /\ UNCHANGED <<variant, embedding_model, chunk_size, chunk_overlap, embeddings,
                   documents, qdrant, clock, text, seen, knowledge, messages, me>>

\* rag.py lines 80-91, rag_qdrant.py lines 118-129: add_pdf reads the file and
\* hands its text to add_text of the same instance
index_file_pdf_read(t) ==
    /\ pc[t] = "pdf_read"
    /\ \E l \in {locals[t]} :
       \E name \in {l.names[l.i]} :
        IF FileError(knowledge[name]) # "none"
        THEN HandlerEnds(t, l, TRUE, FileError(knowledge[name]))
        ELSE AddTextEntered(t, l, PdfText(knowledge[name]), [source |-> name])
    /\ calls' = <<>>
    /\ UNCHANGED <<variant, embedding_model, chunk_size, chunk_overlap, embeddings,
                   documents, qdrant, clock, text, seen, knowledge, messages, me>>

\* main.py lines 199 and 316: me.rag is read and its add_text is called with the
\* text read from the file (None has no add_text: AttributeError)
index_file_txt_add(t) ==
    /\ pc[t] = "txt_add"
    /\ \E l \in {locals[t]} :
        IF me.rag = 0
        THEN HandlerEnds(t, l, TRUE, "'NoneType' object has no attribute 'add_text'")
        ELSE AddTextEntered(t, [l EXCEPT !.self = me.rag, !.kind = variant],
                            l.content, [source |-> l.names[l.i]])
    /\ calls' = <<>>
    /\ UNCHANGED <<variant, embedding_model, chunk_size, chunk_overlap, embeddings,
                   documents, qdrant, clock, text, seen, knowledge, messages, me>>

\* rag.py line 113, rag_qdrant.py line 154: the embedding call of the next
\* chunk; when it raises, add_text raises
rag_embed(t) ==
    /\ pc[t] = "embed"
    /\ \E o \in MeEmbedOutcomes :
        IF o.ok
        THEN /\ pc' = [pc EXCEPT ![t] = IF locals[t].kind = "memory"
                                        THEN "append_embedding" ELSE "stamp"]
             /\ locals' = [locals EXCEPT ![t].embedding = o.vec]
             /\ ret' = StepRet
        ELSE HandlerEnds(t, locals[t], TRUE, "embedding failed")
    /\ calls' = <<"embeddings.create">>
    /\ UNCHANGED <<variant, embedding_model, chunk_size, chunk_overlap, embeddings,
                   documents, qdrant, clock, text, seen, knowledge, messages, me>>

\* rag.py line 121: the vector is appended to the list of the instance the
\* thread is in, which me.rag may refer to no more
rag_append_embedding(t) ==
    /\ pc[t] = "append_embedding"
    /\ embeddings' = IF locals[t].self = me.rag
                     THEN Append(embeddings, locals[t].embedding)
                     ELSE embeddings
    /\ pc' = [pc EXCEPT ![t] = "append_document"]
    /\ calls' = <<>>
    /\ ret' = StepRet
    /\ UNCHANGED <<variant, embedding_model, chunk_size, chunk_overlap, documents,
                   qdrant, clock, text, seen, knowledge, locals, messages, me>>

\* rag.py line 122: the record of the chunk (lines 116-118) is appended; after
\* the last chunk add_text returns
rag_append_document(t) ==
    /\ pc[t] = "append_document"
    /\ \E l \in {locals[t]} :
       \E m \in {[l EXCEPT !.k = @ + 1, !.stored = @ + 1]} :
        /\ documents' = IF l.self = me.rag
                        THEN Append(documents,
                                    ChunkMetadata(l.metadata, l.k, l.chunks[l.k + 1]))
                        ELSE documents
        /\ IF m.k = Len(l.chunks)
           THEN AddTextReturns(t, m)
           ELSE /\ pc' = [pc EXCEPT ![t] = "embed"]
                /\ locals' = [locals EXCEPT ![t] = m]
                /\ ret' = StepRet
    /\ calls' = <<>>
    /\ UNCHANGED <<variant, embedding_model, chunk_size, chunk_overlap, embeddings,
                   qdrant, clock, text, seen, knowledge, messages, me>>

\* rag_qdrant.py line 160: time.time() is read for the chunk
rag_stamp(t) ==
    /\ pc[t] = "stamp"
    /\ clock' = [clock EXCEPT !.time = @ + 1]
    /\ locals' = [locals EXCEPT ![t].created_at = clock.time + 1]
    /\ pc' = [pc EXCEPT ![t] = "id"]
    /\ calls' = <<>>
    /\ ret' = StepRet
    /\ UNCHANGED <<variant, embedding_model, chunk_size, chunk_overlap, embeddings,
                   documents, qdrant, text, seen, knowledge, messages, me>>

\* rag_qdrant.py lines 163-172: uuid4() is drawn and the point is put on the
\* batch; after the last chunk the upsert is next
rag_id(t) ==
    /\ pc[t] = "id"
    /\ \E l \in {locals[t]} :
       \E point \in {[id |-> clock.uuid + 1, vector |-> l.embedding,
                      payload |-> ChunkPayload(l.metadata, l.k, l.chunks[l.k + 1],
                                               l.created_at)]} :
        /\ locals' = [locals EXCEPT ![t].points = Append(@, point),
                                    ![t].k = @ + 1]
        /\ pc' = [pc EXCEPT ![t] = IF l.k + 1 = Len(l.chunks) THEN "upsert"
                                   ELSE "embed"]
    /\ clock' = [clock EXCEPT !.uuid = @ + 1]
    /\ calls' = <<>>
    /\ ret' = StepRet
    /\ UNCHANGED <<variant, embedding_model, chunk_size, chunk_overlap, embeddings,
                   documents, qdrant, text, seen, knowledge, messages, me>>

\* rag_qdrant.py lines 175-181: the one request add_text sends, then the return
rag_upsert(t) ==
    /\ pc[t] = "upsert"
    /\ \E l \in {locals[t]} :
       \E r \in {upsert(qdrant, collection_name, l.points)} :
        /\ qdrant' = r.srv
        /\ IF r.raised
           THEN HandlerEnds(t, l, TRUE, "upsert refused")
           ELSE AddTextReturns(t, [l EXCEPT !.stored = @ + Len(l.points)])
    /\ calls' = <<"upsert">>
    /\ UNCHANGED <<variant, embedding_model, chunk_size, chunk_overlap, embeddings,
                   documents, clock, text, seen, knowledge, messages, me>>

\* the file names and custom names /upload is called with; <<>> stands for no
\* custom name
UploadNames ==
    { <<"n", ".", "t", "x", "t">>, <<"n", ".", "T", "X", "T">>,
      <<"n", ".", "p", "d", "f">>, <<"n", ".", "m", "d">>,
      <<".", "t", "x", "t">> }
CustomNames == {<<>>, <<"n", "/">>}

\* main.py line 294
UnsupportedDetail == "Only .txt and .pdf files are supported"

\* main.py lines 279-306: /upload is called on the event-loop thread.  The
\* HTTPException of line 294 is raised inside the try of line 284 and caught at
\* line 324; for a supported extension the file is opened for writing under
\* its final name (lines 297-306), which leaves it empty.
upload_file ==
    /\ pc["main"] = "up"
    /\ pc["loop"] = "idle"
    /\ me.served < MaxRequests
    /\ me' = [me EXCEPT !.served = @ + 1]
    /\ \E filename \in UploadNames, custom_name \in CustomNames,
          content \in FileContents :
        \E l \in {[IdleLocals EXCEPT
                     !.stage = "upload",
                     !.extension = Lower(Suffix(filename)),
                     !.filename = FinalFilename(filename, custom_name),
                     !.names = <<FinalFilename(filename, custom_name)>>,
                     !.i = 1,
                     !.upload = content]} :
            IF l.extension \notin {DotTxt, DotPdf}
            THEN /\ HandlerEnds("loop", l, TRUE, "400: " \o UnsupportedDetail)
                 /\ UNCHANGED knowledge
            ELSE /\ Cardinality(DOMAIN knowledge \cup {l.filename}) <= MaxFiles
                 /\ knowledge' = DictSet(knowledge, l.filename,
                                         EmptyFile(l.extension))
                 /\ pc' = [pc EXCEPT !["loop"] = "write"]
                 /\ locals' = [locals EXCEPT !["loop"] = [l EXCEPT !.saved = TRUE]]
                 /\ ret' = StepRet
    /\ calls' = <<>>
    /\ UNCHANGED <<variant, embedding_model, chunk_size, chunk_overlap, embeddings,
                   documents, qdrant, clock, text, seen, messages>>

\* main.py line 307: the bytes of the upload are written into the file; the
\* indexing of lines 310-316 is next
upload_file_write ==
    /\ pc["loop"] = "write"
    /\ knowledge' = DictSet(knowledge, locals["loop"].filename,
                            locals["loop"].upload)
    /\ pc' = [pc EXCEPT !["loop"] = "file"]
    /\ calls' = <<>>
    /\ ret' = StepRet
    /\ UNCHANGED <<variant, embedding_model, chunk_size, chunk_overlap, embeddings,
                   documents, qdrant, clock, text, seen, locals, messages, me>>

----------------------------------------------------------------------------
(* Specification of the server process over its restarts: the remote store  *)
(* and the directory me/knowledge outlive the process, which is stopped at  *)
(* any moment and started again.  Me() runs before                          *)
(* the process serves; from then on every access of a thread to me.rag, to  *)
(* the lists of an in-memory instance, to the directory, to the clock and   *)
(* the ids, and every request to the remote store or the embedding service  *)
(* is one step, and the steps of the threads interleave.                    *)

InitMe ==
    /\ variant = "none"
    /\ embedding_model = "text-embedding-3-small"
    /\ chunk_size = 500
    /\ chunk_overlap = 100
    /\ embeddings = <<>>
    /\ documents = <<>>
    /\ qdrant = [n \in CollectionNames |-> NoCollection]
    /\ clock = [time |-> 0, uuid |-> 0]
    /\ calls = <<>>
    /\ ret = NoRet
    /\ text = <<>>
    /\ pc = [t \in {"main"} \cup ServerThreads |->
                IF t = "main" THEN "down" ELSE "idle"]
    /\ seen = <<>>
    /\ knowledge \in InitialDirs
    /\ locals = [t \in ServerThreads |-> IdleLocals]
    /\ messages = <<>>
    /\ me = NoMe

NextMe ==
    \/ Me_init
    \/ process_ends
    \/ upload_file
    \/ upload_file_write
    \/ \E w \in Workers :
        \/ get_rag_system(w)
        \/ initialize_rag_list(w)
        \/ initialize_rag_create(w)
        \/ initialize_rag_assign(w)
        \/ initialize_rag_count(w)
        \/ initialize_rag_count_answer(w)
        \/ initialize_rag_fallback(w)
        \/ initialize_rag_text(w)
        \/ initialize_rag_listdir(w)
    \/ \E t \in ServerThreads :
        \/ index_file(t)
        \/ index_file_pdf_read(t)
        \/ index_file_txt_add(t)
        \/ rag_embed(t)
        \/ rag_append_embedding(t)
        \/ rag_append_document(t)
        \/ rag_stamp(t)
        \/ rag_id(t)
        \/ rag_upsert(t)

SpecMe == InitMe /\ [][NextMe]_vars

----------------------------------------------------------------------------
(* Specification of two threads that use one in-memory RAGSystem without a  *)
(* lock: one runs add_text, the other runs search.  Every statement that    *)
(* reads or writes self.embeddings or self.documents is one step.           *)

Threads == {"adder", "searcher"}

\* the locals of a thread that is in no call
NoLocals == [op |-> "none"]

InitThreads ==
    /\ variant = "memory"
    /\ embedding_model = "text-embedding-3-small"
    /\ \E c \in RagChunking : chunk_size = c[1] /\ chunk_overlap = c[2]
    /\ embeddings = <<>>
    /\ documents = <<>>
    /\ qdrant = [n \in CollectionNames |-> NoCollection]
    /\ clock = 0
    /\ calls = <<>>
    /\ ret = NoRet
    /\ text = <<>>
    /\ pc = [t \in Threads |-> "idle"]
    /\ seen = <<>>
    /\ knowledge = <<>>
    /\ locals = [t \in Threads |-> NoLocals]
    /\ messages = <<>>
    /\ me = <<>>

\* what a step of a thread leaves alone besides the two lists, pc, locals, ret
ThreadFrame ==
    UNCHANGED <<variant, embedding_model, chunk_size, chunk_overlap, qdrant,
                clock, calls, text, seen, knowledge, messages, me>>

\* the adder is at the head of the loop of line 111 with chunk i next
AdderAt(chunks, metadata, i) ==
    IF i > Len(chunks)
    THEN /\ pc' = [pc EXCEPT !["adder"] = "idle"]
         /\ locals' = [locals EXCEPT !["adder"] = NoLocals]
    ELSE /\ pc' = [pc EXCEPT !["adder"] = "embed"]
         /\ locals' = [locals EXCEPT !["adder"] =
                          [op |-> "add_text", chunks |-> chunks,
                           metadata |-> metadata, i |-> i, embedding |-> NoVec]]

\* rag.py lines 104-108: add_text is called and chunks its text
add_text_call ==
    /\ pc["adder"] = "idle"
    /\ \E t \in RagTexts :
        LET chunks == chunk_text(t, chunk_size, chunk_overlap)
        IN  /\ Len(documents) + Len(chunks) <= MaxDocs
            /\ AdderAt(chunks, DefaultMetadata([none |-> TRUE, dict |-> EmptyDict]), 1)
    /\ UNCHANGED <<embeddings, documents, ret>>
    /\ ThreadFrame

\* rag.py line 113: the embedding call for chunk i; if it raises, add_text ends
add_text_embed ==
    /\ pc["adder"] = "embed"
    /\ \E o \in EmbedOutcomes(embedding_model) :
        IF o.ok
        THEN /\ pc' = [pc EXCEPT !["adder"] = "append_embedding"]
             /\ locals' = [locals EXCEPT !["adder"].embedding = o.vec]
        ELSE /\ pc' = [pc EXCEPT !["adder"] = "idle"]
             /\ locals' = [locals EXCEPT !["adder"] = NoLocals]
    /\ UNCHANGED <<embeddings, documents, ret>>
    /\ ThreadFrame

\* line 121 taken for line 122: the record is appended where the vector should be
AppendEmbedding_record(embs, docs, vec, record) ==
    [embeddings |-> embs, documents |-> Append(docs, record)]

\* rag.py line 121: self.embeddings.append(embedding)
AppendEmbedding(embs, docs, vec, record) ==
    [embeddings |-> Append(embs, vec), documents |-> docs]

\* rag.py line 122: self.documents.append(chunk_metadata)
AppendDocument(embs, docs, vec, record) ==
    [embeddings |-> embs, documents |-> Append(docs, record)]

\* the record lines 116-118 make of the adder's current chunk
AdderRecord ==
    LET l == locals["adder"]
    IN  ChunkMetadata(l.metadata, l.i - 1, l.chunks[l.i])

\* rag.py line 121
add_text_append_embedding ==
    /\ pc["adder"] = "append_embedding"
    /\ LET r == AppendEmbedding(embeddings, documents, locals["adder"].embedding,
                                AdderRecord)
       IN  embeddings' = r.embeddings /\ documents' = r.documents
    /\ pc' = [pc EXCEPT !["adder"] = "append_document"]
    /\ UNCHANGED <<locals, ret>>
    /\ ThreadFrame

\* rag.py line 122, and back to the head of the loop
add_text_append_document ==
    /\ pc["adder"] = "append_document"
    /\ LET r == AppendDocument(embeddings, documents, locals["adder"].embedding,
                               AdderRecord)
       IN  embeddings' = r.embeddings /\ documents' = r.documents
    /\ AdderAt(locals["adder"].chunks, locals["adder"].metadata,
               locals["adder"].i + 1)
    /\ UNCHANGED ret
    /\ ThreadFrame

\* the searcher's call ends
SearchEnds(raised, value) ==
    /\ pc' = [pc EXCEPT !["searcher"] = "idle"]
    /\ locals' = [locals EXCEPT !["searcher"] = NoLocals]
    /\ ret' = [op |-> "search", raised |-> raised, value |-> value]

\* rag.py line 138: search is called and embeds its query
search_call ==
    /\ pc["searcher"] = "idle"
    /\ \E o \in EmbedOutcomes(embedding_model), top_k \in 1 .. MaxTopK :
        IF o.ok
        THEN /\ pc' = [pc EXCEPT !["searcher"] = "score"]
             /\ locals' = [locals EXCEPT !["searcher"] =
                              [op |-> "search", query_embedding |-> o.vec,
                               top_k |-> top_k, scores |-> <<>>,
                               top_indices |-> <<>>, results |-> <<>>,
                               records |-> 0]]
             /\ UNCHANGED ret
        ELSE SearchEnds(TRUE, "embedding")
    /\ UNCHANGED <<embeddings, documents>>
    /\ ThreadFrame

\* rag.py lines 142-147: one turn of the loop over self.embeddings, which takes
\* the next vector of the list as it is now, or ends when there is none
search_score ==
    /\ pc["searcher"] = "score"
    /\ LET l == locals["searcher"]
           n == Len(l.scores)
       IN  IF n < Len(embeddings)
           THEN /\ locals' = [locals EXCEPT !["searcher"].scores =
                                Append(l.scores,
                                       similarity(l.query_embedding, embeddings[n + 1]))]
                /\ UNCHANGED pc
           ELSE /\ pc' = [pc EXCEPT !["searcher"] = "select"]
                /\ UNCHANGED locals
    /\ UNCHANGED <<embeddings, documents, ret>>
    /\ ThreadFrame

\* rag.py lines 150-154: top_k is cut to len(self.documents) as it is now (the
\* length read is kept in `records`), and the indices are taken from the scores
\* gathered before
search_select ==
    /\ pc["searcher"] = "select"
    /\ LET l == locals["searcher"]
           k == Min(l.top_k, Len(documents))
       IN  IF k = 0 THEN SearchEnds(FALSE, <<>>)
           ELSE \E order \in ArgSorts(l.scores) :
                /\ pc' = [pc EXCEPT !["searcher"] = "collect"]
                /\ locals' = [locals EXCEPT
                                !["searcher"].top_indices =
                                    Reverse(PySliceFrom(order, -k)),
                                !["searcher"].records = Len(documents)]
                /\ UNCHANGED ret
    /\ UNCHANGED <<embeddings, documents>>
    /\ ThreadFrame

\* rag.py lines 158-163: one turn of the loop over top_indices, which reads
\* self.documents[idx] as the list is now (IndexError if it has no such record),
\* or the return of the results
search_collect ==
    /\ pc["searcher"] = "collect"
    /\ LET l == locals["searcher"]
           j == Len(l.results) + 1
       IN  IF j > Len(l.top_indices) THEN SearchEnds(FALSE, l.results)
           ELSE IF l.top_indices[j] > Len(documents)
           THEN SearchEnds(TRUE, "IndexError")
           ELSE /\ locals' = [locals EXCEPT !["searcher"].results =
                                Append(l.results,
                                       DictSet(documents[l.top_indices[j]], "score",
                                               l.scores[l.top_indices[j]]))]
                /\ UNCHANGED <<pc, ret>>
    /\ UNCHANGED <<embeddings, documents>>
    /\ ThreadFrame

NextThreads ==
    \/ add_text_call
    \/ add_text_embed
    \/ add_text_append_embedding
    \/ add_text_append_document
    \/ search_call
    \/ search_score
    \/ search_select
    \/ search_collect

SpecThreads == InitThreads /\ [][NextThreads]_vars

----------------------------------------------------------------------------
(* Me.chat of main.py: the loop over the answers of the chat model and the   *)
(* tool calls they ask for                                                   *)

\* most model calls one chat makes before the model has to answer in words
MaxTurns == 2
\* most tool calls one answer of the model asks for
MaxToolCalls == 2

\* main.py lines 132-133: the tools the model is offered
ToolNames == {"record_user_details", "record_unknown_question"}

\* What globals().get(name) of main.py line 207 finds for the names the model
\* may put in a tool call: the two tool functions (lines 83-89), the function
\* push (line 72), the module json (line 3), and nothing (None) for a name that
\* is not bound at module level.
GlobalsGet(name) ==
    CASE name \in ToolNames -> "tool"
      [] name = "push" -> "function"
      [] name = "json" -> "module"
      [] OTHER -> "None"

\* the function names of the tool calls of the model
CallNames == ToolNames \cup {"no_such_tool", "push", "json"}

\* function.arguments of a tool call: a string that is no JSON, or the JSON of
\* an object with the given keys
CallArguments ==
    {[json |-> FALSE, keys |-> {}]}
    \cup {[json |-> TRUE, keys |-> k] : k \in {{"email"}, {"question"}, {"text"}}}

\* the keyword arguments a function of main.py takes, and those it cannot do
\* without (lines 72, 83, 87)
Parameters(name) ==
    CASE name = "record_user_details" ->
            [all |-> {"email", "name", "notes"}, required |-> {"email"}]
      [] name = "record_unknown_question" ->
            [all |-> {"question"}, required |-> {"question"}]
      [] OTHER -> [all |-> {"text"}, required |-> {"text"}]

\* json.dumps of the values a tool call can result in
Dumps(result) ==
    CASE result = "recorded" -> "{\"recorded\": \"ok\"}"
      [] result = "empty dict" -> "{}"
      [] OTHER -> "null"

\* main.py lines 204-208 for one tool call: json.loads raises on a string that is
\* no JSON; a global that is not None is called (line 208), which raises
\* TypeError when it is no function or the keywords do not fit its parameters;
\* push_ok says whether the request of line 73 goes through
ToolResult(tool_call, push_ok) ==
    LET tool == GlobalsGet(tool_call.name)
        fits == /\ Parameters(tool_call.name).required \subseteq tool_call.arguments.keys
                /\ tool_call.arguments.keys \subseteq Parameters(tool_call.name).all
    IN  IF ~tool_call.arguments.json THEN [raised |-> TRUE, result |-> "none"]
        ELSE IF tool = "None" THEN [raised |-> FALSE, result |-> "empty dict"]
        ELSE IF tool = "module" \/ ~fits \/ ~push_ok
        THEN [raised |-> TRUE, result |-> "none"]
        ELSE [raised |-> FALSE,
              result |-> IF tool = "tool" THEN "recorded" ELSE "None"]

\* main.py lines 201-210, from the i-th tool call on
RECURSIVE handle_tool_call(_, _, _, _)
handle_tool_call(tool_calls, i, results, push_ok) ==
    IF i > Len(tool_calls) THEN [raised |-> FALSE, results |-> results]
    ELSE LET r == ToolResult(tool_calls[i], push_ok)
         IN  IF r.raised THEN [raised |-> TRUE, results |-> results]
             ELSE handle_tool_call(tool_calls, i + 1,
                      Append(results, [role |-> "tool", content |-> Dumps(r.result),
                                       tool_call_id |-> tool_calls[i].id]),
                      push_ok)

\* the tool calls of one answer: one to MaxToolCalls calls, the ids given by the
\* API in the order of the calls
ToolCallLists ==
    UNION {[1 .. n -> CallNames \X CallArguments] : n \in 1 .. MaxToolCalls}

ToolCalls(list, turn) ==
    [k \in 1 .. Len(list) |->
        [id |-> <<"call", turn, k>>, name |-> list[k][1], arguments |-> list[k][2]]]

\* main.py line 231: what chat.completions.create does: it raises, it answers in
\* words, or it asks for tool calls
Completions(turn) ==
    {[ok |-> FALSE, finish_reason |-> "none", content |-> "", tool_calls |-> <<>>],
     [ok |-> TRUE, finish_reason |-> "stop", content |-> "answer", tool_calls |-> <<>>]}
    \cup {[ok |-> TRUE, finish_reason |-> "tool_calls", content |-> "",
           tool_calls |-> ToolCalls(list, turn)] : list \in ToolCallLists}

\* response.choices[0].message as main.py line 235 appends it
AssistantMessage(response) ==
    [role |-> "assistant", content |-> response.content,
     tool_calls |-> response.tool_calls]

\* the history arguments of chat: none, and one earlier exchange
Histories ==
    {<<>>, <<[role |-> "user", content |-> "hello"],
             [role |-> "assistant", content |-> "hi"]>>}

\* main.py lines 225-229: chat is called; the messages list is made
chat_call ==
    /\ pc[1] \in {"idle", "done", "raised"}
    /\ \E history \in Histories :
        /\ messages' = <<[role |-> "system",
                          content |-> <<"system_prompt", me.summary, me.linkedin>>]>>
                       \o history \o <<[role |-> "user", content |-> "question"]>>
        /\ ret' = [op |-> "chat", history |-> history]
    /\ pc' = <<"loop">>
    /\ locals' = [turn |-> 0]
    /\ calls' = <<>>
    /\ UNCHANGED <<variant, embedding_model, chunk_size, chunk_overlap, embeddings,
                   documents, qdrant, clock, text, seen, knowledge, me>>

\* main.py lines 230-241: one pass of the while loop: the model is called; on
\* finish_reason "tool_calls" the calls are handled and then the answer and the
\* results are appended, otherwise the loop ends and chat returns the content.
\* An exception of the call or of a tool ends chat.
chat_turn ==
    /\ pc = <<"loop">>
    /\ \E response \in Completions(locals.turn + 1), push_ok \in BOOLEAN :
        /\ response.finish_reason = "tool_calls" => locals.turn + 1 < MaxTurns
        /\ \E r \in {handle_tool_call(response.tool_calls, 1, <<>>, push_ok)} :
            LET asked == response.ok /\ response.finish_reason = "tool_calls"
                raised == ~response.ok \/ (asked /\ r.raised)
            IN  /\ messages' = IF asked /\ ~r.raised
                               THEN (messages \o <<AssistantMessage(response)>>)
                                    \o r.results
                               ELSE messages
                /\ pc' = IF raised THEN <<"raised">>
                         ELSE IF asked THEN <<"loop">> ELSE <<"done">>
                /\ ret' = [op |-> "chat_turn", response |-> response,
                           push_ok |-> push_ok, raised |-> raised,
                           value |-> IF raised \/ asked THEN "" ELSE response.content,
                           before |-> messages]
    /\ locals' = [turn |-> locals.turn + 1]
    /\ calls' = Append(calls, "chat.completions.create")
    /\ UNCHANGED <<variant, embedding_model, chunk_size, chunk_overlap, embeddings,
                   documents, qdrant, clock, text, seen, knowledge, me>>

\* the state of a running server that has its Me instance and serves no chat
InitChat ==
    /\ variant = "none"
    /\ embedding_model = "text-embedding-3-small"
    /\ chunk_size = 500
    /\ chunk_overlap = 100
    /\ embeddings = <<>>
    /\ documents = <<>>
    /\ qdrant = [n \in CollectionNames |-> NoCollection]
    /\ clock = 0
    /\ calls = <<>>
    /\ ret = NoRet
    /\ text = <<>>
    /\ pc = <<"idle">>
    /\ seen = <<>>
    /\ knowledge = <<>>
    /\ locals = [turn |-> 0]
    /\ messages = <<>>
    /\ me = [summary |-> SummaryMissing, linkedin |-> LinkedinMissing]

NextChat ==
    \/ chat_call
    \/ chat_turn

SpecChat == InitChat /\ [][NextChat]_vars

----------------------------------------------------------------------------
(* Claims about the chunker, checked under SpecChunk *)

IsPrefix(p, s) == Len(p) <= Len(s) /\ SubSeq(s, 1, Len(p)) = p

HasVisibleChar(s) == \E i \in 1 .. Len(s) : ~IsSpace(s[i])

Chunked == ret.op = "_chunk_text"

\* the sentence units of the normalised input
InputSentences == SplitSentences(Normalize(text))

\* the last k elements of a sequence, k >= 0
LastK(s, k) == SubSeq(s, Len(s) - Min(k, Len(s)) + 1, Len(s))

\* what chunk i+1 has to begin with: the last min(floor(overlap/4), #words) words
\* of chunk i, then the sentence that was being added when chunk i was closed
ClaimedHead(i) ==
    LET words == Words(ret.value[i])
        k == Min(chunk_overlap \div 4, Len(words))
        sentence == InputSentences[ret.closes[i]]
    IN  IF k = 0 THEN sentence
        ELSE Join(LastK(words, k), <<" ">>) \o <<" ">> \o sentence

\* C4 (as claimed): for every chunk_overlap >= 0, also below 4 where
\* floor(overlap/4) = 0, every closed chunk i is followed by a chunk that begins
\* with exactly the last min(floor(overlap/4), #words of chunk i) words of chunk i
\* and then the next sentence.
C4_OverlapSeedIsTailWords ==
    Chunked =>
        \A i \in 1 .. Len(ret.closes) :
            /\ i + 1 <= Len(ret.value)
            /\ IsPrefix(ClaimedHead(i), ret.value[i + 1])
            /\ \/ Len(ret.value[i + 1]) = Len(ClaimedHead(i))
               \/ ret.value[i + 1][Len(ClaimedHead(i)) + 1] = " "

\* the chunk the loop puts sentence i in: the first one, moved on by one for
\* every chunk closed while sentence i or an earlier one was being added
HomeChunk(i) ==
    1 + Cardinality({k \in 1 .. Len(ret.closes) : ret.closes[k] <= i})

\* the sentences put in chunk c, in input order
SentencesOf(c) ==
    SelectSeq([i \in 1 .. Len(InputSentences) |-> [index |-> i, s |-> InputSentences[i]]],
              LAMBDA e : HomeChunk(e.index) = c)

IsSuffix(p, s) == Len(p) <= Len(s) /\ SubSeq(s, Len(s) - Len(p) + 1, Len(s)) = p

\* C16: every sentence of the normalised input stands whole in a returned chunk:
\* the sentences are dealt to the chunks in input order (HomeChunk never
\* decreases), every chunk ends with its sentences, unbroken and in input order,
\* one space between two, after the overlap words if there are any; so no
\* sentence is split or dropped, one longer than chunk_size included.
C16_SentencesStandWhole ==
    (Chunked /\ Normalize(text) # <<>>) =>
        /\ \A i \in 1 .. Len(InputSentences) : HomeChunk(i) \in 1 .. Len(ret.value)
        /\ \A c \in 1 .. Len(ret.value) :
            LET own == SentencesOf(c)
                tail == Join([k \in 1 .. Len(own) |-> own[k].s], <<" ">>)
            IN  /\ own # <<>>
                /\ IsSuffix(tail, ret.value[c])
                /\ \/ Len(tail) = Len(ret.value[c])
                   \/ ret.value[c][Len(ret.value[c]) - Len(tail)] = " "

\* C16 witness: two sentences, the first longer than chunk_size, gave two chunks
C16_Witness ==
    /\ Chunked
    /\ Len(InputSentences) = 2
    /\ chunk_size = 2
    /\ Len(InputSentences[1]) = 3
    /\ Len(ret.value) = 2
    /\ ret.value[1] = InputSentences[1]

LenMax(seqs) ==
    IF seqs = <<>> THEN 0
    ELSE CHOOSE m \in {Len(seqs[i]) : i \in 1 .. Len(seqs)} :
            \A i \in 1 .. Len(seqs) : Len(seqs[i]) <= m

\* C5 (as claimed): when no sentence is longer than chunk_size, every chunk is at
\* most chunk_size plus the longest sentence long, overlap words included.
C5_ChunkLengthBound ==
    (Chunked /\ LenMax(InputSentences) <= chunk_size) =>
        \A i \in 1 .. Len(ret.value) :
            Len(ret.value[i]) <= chunk_size + LenMax(InputSentences)

\* C6: a text with a non-whitespace character yields at least one chunk, an empty
\* or whitespace-only text yields none, and no chunk is empty or whitespace-only.
C6_ChunkCount ==
    Chunked =>
        /\ HasVisibleChar(text) => Len(ret.value) >= 1
        /\ ~HasVisibleChar(text) => ret.value = <<>>
        /\ \A i \in 1 .. Len(ret.value) : HasVisibleChar(ret.value[i])

\* C6 witness: a whitespace-only text of two characters was chunked to nothing
C6_Witness ==
    /\ Chunked
    /\ Len(text) = 2
    /\ ~HasVisibleChar(text)
    /\ ret.value = <<>>

----------------------------------------------------------------------------
(* Claims about one RAGSystem instance, checked under Spec *)

Count(s, x) == Cardinality({i \in 1 .. Len(s) : s[i] = x})

\* the records the instance's store holds, in insertion order
StoredRecords ==
    IF variant = "memory" THEN documents
    ELSE [i \in 1 .. Len(qdrant[collection_name].points) |->
            qdrant[collection_name].points[i].payload]

SearchedMemory == ret.op = "search" /\ variant = "memory"

\* C1 (as claimed): an in-memory search whose query was embedded returns the
\* empty list, without raising, for every top_k <= 0 on any collection and for
\* every top_k on an empty collection.
C1_NonPositiveTopKGivesNothing ==
    (SearchedMemory /\ ret.embedded /\ (ret.top_k <= 0 \/ documents = <<>>)) =>
        (~ret.raised /\ ret.value = <<>>)

\* score of stored chunk i against the query vector of the last search
StoredScore(i) == similarity(ret.query_embedding, embeddings[i])

\* C2: an in-memory search with top_k >= 1 over n stored chunks returns exactly
\* min(top_k, n) results; they are distinct stored chunks, each with its own
\* score, no chunk left out scores higher than a chunk returned, and the scores
\* are in descending order.
C2_TopKBestDescending ==
    (SearchedMemory /\ ret.embedded /\ ret.top_k >= 1) =>
        /\ ~ret.raised
        /\ Len(ret.value) = Min(ret.top_k, Len(documents))
        /\ \A i \in 1 .. Len(ret.value) - 1 :
                ret.value[i]["score"] >= ret.value[i + 1]["score"]
        /\ \E sel \in [1 .. Len(ret.value) -> 1 .. Len(documents)] :
                /\ \A i, j \in 1 .. Len(ret.value) : i # j => sel[i] # sel[j]
                /\ \A i \in 1 .. Len(ret.value) :
                        ret.value[i] = DictSet(documents[sel[i]], "score",
                                               StoredScore(sel[i]))
                /\ \A j \in 1 .. Len(documents) :
                        (\A i \in 1 .. Len(ret.value) : sel[i] # j) =>
                            \A i \in 1 .. Len(ret.value) :
                                StoredScore(j) <= StoredScore(sel[i])

\* C2 witness: top_k = 1 over two stored chunks of different score returned the
\* better one, which is the chunk stored second
C2_Witness ==
    /\ SearchedMemory
    /\ ret.embedded
    /\ ret.top_k = 1
    /\ Len(documents) = 2
    /\ StoredScore(1) < StoredScore(2)
    /\ Len(ret.value) = 1
    /\ ret.value[1]["score"] = StoredScore(2)

\* C3 (as claimed): an add_text call that fails in an embedding call leaves the
\* store as it was, in both variants.
C3_FailedAddTextWritesNothing ==
    [][(ret'.op = "add_text" /\ ret'.raised) =>
            (embeddings' = embeddings /\ documents' = documents /\ qdrant' = qdrant)]_vars

Queried == ret.op = "query"

\* C7: a query calls search once and, when search returned, the generation call
\* once; the context block of the system message is the sources' content fields
\* in ranked order joined by a blank line, and the sources returned are exactly
\* what search returned, scores included.
C7_QueryReturnsSearchResult ==
    Queried =>
        /\ Count(calls, "search") = 1
        /\ Count(calls, "chat.completions.create") = (IF ret.search.raised THEN 0 ELSE 1)
        /\ Len(calls) = (IF ret.search.raised THEN 1 ELSE 2)
        /\ ~ret.raised =>
            /\ ret.value[2] = ret.search.value
            /\ \A i \in 1 .. Len(ret.value[2]) : "score" \in DOMAIN ret.value[2][i]
            /\ ret.messages[1].role = "system"
            /\ ret.messages[1].content =
                    (IF ret.system_prompt = <<>> THEN <<DefaultSystemPrompt>>
                     ELSE ret.system_prompt)
                    \o <<"\n", "\n", "Context:", "\n">>
                    \o Join([i \in 1 .. Len(ret.value[2]) |-> ret.value[2][i]["content"]],
                            <<"\n", "\n">>)

\* C7 witness: a query returned two sources of different content and score
C7_Witness ==
    /\ Queried
    /\ ~ret.raised
    /\ Len(ret.value[2]) = 2
    /\ ret.value[2][1]["content"] # ret.value[2][2]["content"]
    /\ ret.value[2][1]["score"] > ret.value[2][2]["score"]

AddedText == ret.op = "add_text" /\ ~ret.raised

\* the chunks of the text the last add_text was given
AddedChunks == chunk_text(ret.text, chunk_size, chunk_overlap)

\* the records the last add_text added
AddedRecords == SubSeq(StoredRecords, ret.before + 1, Len(StoredRecords))

\* the keys add_text sets itself
OwnKeys == IF variant = "memory" THEN {"chunk_id", "content"}
           ELSE {"chunk_id", "content", "created_at"}

\* what C8 says of a successful add_text, with `kept` the caller's keys that are
\* to be found unchanged in every record
AddTextRecords(kept) ==
    /\ ret.value = Len(AddedChunks)
    /\ Len(StoredRecords) = ret.before + Len(AddedChunks)
    /\ \A i \in 1 .. Len(AddedRecords) :
            /\ AddedRecords[i]["chunk_id"] = i - 1
            /\ AddedRecords[i]["content"] = AddedChunks[i]
            /\ \A k \in kept :
                    /\ k \in DOMAIN AddedRecords[i]
                    /\ AddedRecords[i][k] = ret.metadata.dict[k]
    /\ variant = "qdrant" =>
            Count(calls, "upsert") = (IF Len(AddedChunks) = 0 THEN 0 ELSE 1)

CallerKeys == IF ret.metadata.none THEN {} ELSE DOMAIN ret.metadata.dict

\* C8 (as claimed): a successful add_text of n chunks returns n and adds n
\* records, the i-th with chunk_id i and the i-th chunk as content, and every
\* caller-supplied field, whatever its key, is unchanged in each record; the
\* remote variant writes them in one upsert, and makes none when n = 0.
C8_AddTextKeepsEveryCallerField ==
    AddedText => AddTextRecords(CallerKeys)

\* C8 (amended): as above, for the caller-supplied fields whose key is not one
\* add_text sets itself (chunk_id, content and, remote, created_at).
C8_AddTextKeepsOtherCallerFields ==
    AddedText => AddTextRecords(CallerKeys \ OwnKeys)

\* C8 witness: the remote variant added two chunks under caller metadata that has
\* a chunk_id and a tag field
C8_Witness ==
    /\ AddedText
    /\ variant = "qdrant"
    /\ ret.value = 2
    /\ {"chunk_id", "tag"} \subseteq CallerKeys
    /\ Len(AddedRecords) = 2
    /\ AddedRecords[2]["tag"] = "x"

\* C9: in the remote variant clear_collection does not fail and leaves the
\* collection in existence, with its vector size and metric and no points; a
\* get_document_count that follows returns 0; a second clear_collection changes
\* nothing.
C9_ClearThenCountIsZero ==
    [][/\ ret'.op = "clear_collection" =>
            /\ ~ret'.raised
            /\ qdrant'[collection_name].exists
            /\ qdrant'[collection_name] =
                    [qdrant[collection_name] EXCEPT !.points = <<>>]
            /\ qdrant'[collection_name].size = VectorSize
            /\ qdrant'[collection_name].distance = "Cosine"
       /\ (ret.op = "clear_collection" /\ ret'.op = "get_document_count") =>
            (~ret'.raised /\ ret'.value = 0)
       /\ (ret.op = "clear_collection" /\ ret'.op = "clear_collection") =>
            qdrant' = qdrant]_vars

\* C9 witness: clear_collection has just emptied a collection of two points
C9_Witness ==
    /\ ret.op = "clear_collection"
    /\ ret.before = 2
    /\ qdrant[collection_name].exists
    /\ qdrant[collection_name].points = <<>>

\* C11 (as claimed): in the result of an in-memory search, of two chunks with the
\* same score the one stored earlier (lower index) comes first.
C11_EqualScoresInIndexOrder ==
    (SearchedMemory /\ ret.embedded /\ ~ret.raised) =>
        \E sel \in [1 .. Len(ret.value) -> 1 .. Len(documents)] :
            /\ \A i, j \in 1 .. Len(ret.value) : i # j => sel[i] # sel[j]
            /\ \A i \in 1 .. Len(ret.value) :
                    ret.value[i] = DictSet(documents[sel[i]], "score",
                                           StoredScore(sel[i]))
            /\ \A i, j \in 1 .. Len(ret.value) :
                    (i < j /\ ret.value[i]["score"] = ret.value[j]["score"])
                        => sel[i] < sel[j]

----------------------------------------------------------------------------
(* Claims about processes that share a collection, checked under SpecRace *)

\* C10 (as claimed): whatever the interleaving of constructions, clear_collection
\* calls and add_text calls, create_collection is never sent for a collection
\* that exists and upsert is never sent for a collection that does not.
C10_CreateAndUpsertFindTheirCollection ==
    /\ Count(calls, "create_collection") > 0 => ~ret.existed
    /\ Count(calls, "upsert") > 0 => ret.existed

----------------------------------------------------------------------------
(* Claims about what the calls leave alone, checked under Spec *)

\* the calls the immutability of stored chunks is claimed for
Reads == {"add_text", "search", "query"}

\* C15: a step of add_text, search or query keeps every chunk already in the
\* store, vector and record, as it was (the store grows at its end only), leaves
\* every stored record without a score field, and an add_text leaves the
\* metadata mapping of its caller as it was handed over.
C15_StoredChunksImmutable ==
    [][ret'.op \in Reads =>
        /\ IsPrefix(StoredRecords, StoredRecords')
        /\ IsPrefix(StoredVectors, StoredVectors')
        /\ \A i \in 1 .. Len(StoredRecords') : "score" \notin DOMAIN StoredRecords'[i]
        /\ (ret'.op = "add_text" /\ ~ret'.metadata.none)
              => ret'.metadata_after = ret'.metadata.dict]_vars

\* C15 witness: a search of the in-memory store returned both stored records,
\* each with its score, and the two records are still in the store
C15_Witness ==
    /\ SearchedMemory
    /\ ~ret.raised
    /\ Len(ret.value) = 2
    /\ Len(documents) = 2
    /\ \A i \in 1 .. 2 : "score" \in DOMAIN ret.value[i]

\* C17: on the in-memory instance every step leaves embeddings and documents
\* equally long and only extends them at the end, and an add_text step, returned
\* or raised, extends them by one pair per embedding it obtained: the vector the
\* call returned beside the record whose content is the text the call was given.
C17_ParallelSequences ==
    [][variant = "memory" =>
        /\ Len(embeddings') = Len(documents')
        /\ IsPrefix(embeddings, embeddings')
        /\ IsPrefix(documents, documents')
        /\ ret'.op = "add_text" =>
            /\ Len(embeddings') = Len(embeddings) + Len(ret'.obtained)
            /\ \A k \in 1 .. Len(ret'.obtained) :
                /\ embeddings'[Len(embeddings) + k] = ret'.obtained[k].embedding
                /\ documents'[Len(documents) + k]["content"] = ret'.obtained[k].input]_vars

\* C17 witness: an add_text of two chunks on the in-memory instance raised at
\* its second embedding call, after the first chunk had been stored
C17_Witness ==
    /\ variant = "memory"
    /\ ret.op = "add_text"
    /\ ret.raised
    /\ Len(ret.obtained) = 1
    /\ Len(embeddings) = ret.before + 1
    /\ Len(documents) = ret.before + 1

----------------------------------------------------------------------------
(* Claims about the vector size, checked under SpecDim *)

\* C14: in every reachable state every stored vector has the configured vector
\* size, and an add_text that embedded a chunk with a model of another
\* dimensionality raised and stored nothing, on both classes and under every
\* embedding model.  The configured size is VectorSize: an instance of the
\* remote class holds it as self.vector_size whatever the server holds and
\* creates its collection with it; rag.py's class has no attribute of the kind,
\* and the size claimed for its vectors is the same one.
C14_StoredVectorsHaveConfiguredSize ==
    /\ \A i \in 1 .. Len(StoredVectors) : StoredVectors[i].dim = VectorSize
    /\ (/\ ret.op = "add_text"
        /\ chunk_text(ret.text, chunk_size, chunk_overlap) # <<>>
        /\ EmbeddingDim(embedding_model) # VectorSize)
           => (ret.raised /\ Len(StoredVectors) = ret.before)

----------------------------------------------------------------------------
(* Claims about the server process, checked under SpecMe *)

\* Me() ran initialize_rag in the step that led here
Initialized == ret.op = "Me" /\ ret.initialized

\* the records add_text makes of text t under the metadata {"source": source}
ChunkRecords(t, source) ==
    LET chunks == chunk_text(t, chunk_size, chunk_overlap)
    IN  [i \in 1 .. Len(chunks) |->
            [source |-> source, chunk_id |-> i - 1, content |-> chunks[i]]]

\* the text indexed for the file `name` of me/knowledge
FileText(name) ==
    IF EndsWith(Lower(name), DotPdf) THEN PdfText(knowledge[name])
    ELSE knowledge[name].text

RECURSIVE FileRecords(_, _)
FileRecords(names, i) ==
    IF i > Len(names) THEN <<>>
    ELSE ChunkRecords(FileText(names[i]), names[i]) \o FileRecords(names, i + 1)

\* the records of the summary, the LinkedIn text and the files in the order names
PopulationRecords(names) ==
    ChunkRecords(me.summary, SummarySource)
        \o ChunkRecords(me.linkedin, LinkedinSource)
        \o FileRecords(names, 1)

\* a worker thread has just caught the exception of line 164 or 171
FellBack == ret.op = "fallback"

\* get_rag_system has just returned from an initialize_rag that fell back
ReturnedFromFallback ==
    ret.op = "get_rag_system" /\ ret.initialized /\ ret.failed /\ ~ret.raised

\* the records the in-memory add_text makes of the chunks of one call
RecordsOf(a) ==
    {ChunkMetadata([source |-> a.source], i - 1, a.chunks[i]) :
        i \in 1 .. Len(a.chunks)}

\* C12: when the construction of the remote RAGSystem or the reading of its
\* document count raises, initialize_rag does not raise for it: me.rag is made
\* an in-memory RAGSystem that holds no chunk, whatever the remote collection
\* holds, and that instance is then given the summary, the LinkedIn text and
\* the files of me/knowledge.  At the start of the process, when none of these
\* additions fails, the in-memory store ends up with exactly their chunks; when
\* get_rag_system returns from an initialize_rag that fell back, me.rag is the
\* in-memory instance that initialize_rag made and it holds the chunks of the
\* summary, of the LinkedIn text and of the files the call has added.
C12_RemoteFailureFallsBackToMemory ==
    /\ (Initialized /\ ret.failed) =>
        /\ ret.fallback
        /\ ret.populated
        /\ ret.created = 0
        /\ (~ret.raised /\ ~ret.caught) =>
            /\ variant = "memory"
            /\ \E names \in ListDirs(knowledge) :
                    documents = PopulationRecords(names)
            /\ Len(embeddings) = Len(documents)
    /\ FellBack =>
        /\ me.rag # 0
        /\ variant = "memory"
        /\ embeddings = <<>>
        /\ documents = <<>>
    /\ ReturnedFromFallback =>
        /\ me.rag = ret.instance
        /\ variant = "memory"
        /\ Len(ret.added) >= 2
        /\ ret.added[1] = [source |-> SummarySource,
                           chunks |-> chunk_text(me.summary, chunk_size,
                                                 chunk_overlap)]
        /\ ret.added[2] = [source |-> LinkedinSource,
                           chunks |-> chunk_text(me.linkedin, chunk_size,
                                                 chunk_overlap)]
        /\ \A i \in 3 .. Len(ret.added) : ret.added[i].source \in DOMAIN knowledge
        /\ \A i \in 1 .. Len(ret.added) :
                RecordsOf(ret.added[i]) \subseteq
                    {documents[j] : j \in 1 .. Len(documents)}

\* the points of the remote collection whose payload names the given source
PointsFrom(source) ==
    SelectSeq(qdrant[collection_name].points, LAMBDA p : p.payload["source"] = source)

\* C18: over the starts of the process against one remote collection, a start
\* whose initialize_rag read a document count above 0 leaves the server as it
\* found it (the count with it), and the collection never holds more than one
\* chunk of the summary or of the LinkedIn text.
C18_BaseDocumentsAddedOnce ==
    [][/\ (ret'.op = "Me" /\ ret'.initialized /\ ret'.doc_count > 0)
          => qdrant' = qdrant
       /\ Len(PointsFrom(SummarySource)') <= 1
       /\ Len(PointsFrom(LinkedinSource)') <= 1]_vars

\* an upload whose file name has an extension other than .txt and .pdf was
\* answered in the step that led here
UnsupportedUpload ==
    ret.op = "upload_file" /\ ret.extension \notin {DotTxt, DotPdf}

\* C19: /upload answers a file whose extension is neither .txt nor .pdf with
\* status 400 and the detail 'Only .txt and .pdf files are supported', and it
\* has neither saved the file nor indexed anything.
C19_UnsupportedExtensionIs400 ==
    UnsupportedUpload =>
        /\ ret.status = 400
        /\ ret.detail = <<UnsupportedDetail>>
        /\ ~ret.saved
        /\ ret.stored = 0

\* an upload was answered with an error status in the step that led here
FailedUpload == ret.op = "upload_file" /\ ret.status # 200

\* C21: when /upload answers with an error status, whatever the cause (me.rag
\* is None, the file cannot be read, the indexing raises), the request has
\* written no file into the directory me/knowledge and has added no chunk to
\* the index.
C21_FailedUploadLeavesNoTrace ==
    FailedUpload =>
        /\ ~ret.saved
        /\ ret.stored = 0

----------------------------------------------------------------------------
(* Claims about two threads on one in-memory store, checked under SpecThreads *)

\* the searcher has selected its indices and is reading the records
Collecting == pc["searcher"] = "collect"

\* the indices the searcher selected that have no record now
Orphans ==
    {j \in 1 .. Len(locals["searcher"].top_indices) :
        locals["searcher"].top_indices[j] > Len(documents)}

\* C13: add_text appends a chunk's vector and its record in two steps: between
\* them, and only then, the vector list is one longer than the record list.  A
\* search that runs meanwhile may have scored a number of vectors that differs
\* from the number of records it finds when it selects; an index it selected
\* always has a vector, and has no record only while add_text is between its
\* two appends, in which case it is the index of the vector appended last.
C13_VectorBeforeRecord ==
    /\ Len(embeddings) =
            Len(documents) + (IF pc["adder"] = "append_document" THEN 1 ELSE 0)
    /\ Collecting =>
            /\ \A j \in 1 .. Len(locals["searcher"].top_indices) :
                    locals["searcher"].top_indices[j] <= Len(embeddings)
            /\ \A j \in Orphans :
                    /\ pc["adder"] = "append_document"
                    /\ locals["searcher"].top_indices[j] = Len(embeddings)

\* C13 witness: the search scored two vectors, found one record, and selected
\* index 2, which has a vector and no record
C13_Witness ==
    /\ Collecting
    /\ Len(locals["searcher"].scores) = 2
    /\ locals["searcher"].records = 1
    /\ Len(documents) = 1
    /\ Len(embeddings) = 2
    /\ locals["searcher"].top_indices = <<2>>

----------------------------------------------------------------------------
(* Claims about Me.chat, checked under SpecChat *)

\* a pass of the chat loop ran in the step that led here and the model answered
Answered == ret.op = "chat_turn" /\ ret.response.ok

\* every tool call of the answer can be carried out: its arguments are JSON, and
\* where it names one of the two tools the arguments fit the tool and the
\* notification the tool sends goes through
CanBeCarriedOut(response, push_ok) ==
    \A k \in 1 .. Len(response.tool_calls) :
        LET c == response.tool_calls[k]
        IN  /\ c.arguments.json
            /\ c.name \in ToolNames =>
                /\ push_ok
                /\ Parameters(c.name).required \subseteq c.arguments.keys
                /\ c.arguments.keys \subseteq Parameters(c.name).all

\* the tool messages claimed for an answer: one per tool call, in call order,
\* with the id of the call; the result of a tool, {} for any other name
ClaimedToolMessages(response) ==
    [k \in 1 .. Len(response.tool_calls) |->
        [role |-> "tool",
         content |-> IF response.tool_calls[k].name \in ToolNames
                     THEN "{\"recorded\": \"ok\"}" ELSE "{}",
         tool_call_id |-> response.tool_calls[k].id]]

\* C20: an answer with finish_reason "tool_calls" whose calls can be carried out
\* is followed, before the next model call, by the assistant message and then
\* one tool message per call, in call order and with the call's id, a name that
\* is none of the tools giving {} and no error; an answer with another
\* finish_reason ends the loop and its content is what chat returns.
C20_ToolLoop ==
    Answered =>
        /\ (ret.response.finish_reason = "tool_calls"
              /\ CanBeCarriedOut(ret.response, ret.push_ok))
            => /\ ~ret.raised
               /\ pc = <<"loop">>
               /\ messages = (ret.before \o <<AssistantMessage(ret.response)>>)
                             \o ClaimedToolMessages(ret.response)
        /\ ret.response.finish_reason # "tool_calls"
            => /\ ~ret.raised
               /\ pc = <<"done">>
               /\ ret.value = ret.response.content
               /\ messages = ret.before

====
